---- MODULE Spec2Model ----
(***************************************************************************)
(* Model of the Loreway dialogue engine (src/narrative/DialogueSystem.cpp) *)
(* and of the template loader that feeds it (DialogueDataLoader.cpp).      *)
(*                                                                         *)
(* Numbers.  The style sliders and the threat level are floats in [0,1];   *)
(* they are modelled in tenths (0.6f is 6).  Template weights are floats;  *)
(* they are modelled in halves (1.5f is 3).  Times and cooldowns are       *)
(* whole seconds.  Strings are TLA+ strings.                               *)
(***************************************************************************)
EXTENDS Integers, Sequences, FiniteSets, TLC

VARIABLES
    currentTimeSeconds,   \* double currentTimeSeconds
    npcProfiles,          \* unordered_map<string, NPCVoiceProfile>
    templates,            \* vector<DialogueTemplate>
    emergentEvents,       \* vector<EmergentEvent>
    lastFireTimestamps,   \* unordered_map<CooldownKey, double>
    last,                 \* the most recent call: its arguments and its result
    emitted,              \* history: per (npc, category), the times of the successful
                          \* emissions since the npc's most recent registration
    nOps                  \* number of public operations performed so far

vars == <<currentTimeSeconds, npcProfiles, templates, emergentEvents,
          lastFireTimestamps, last, emitted, nOps>>

-----------------------------------------------------------------------------
(* Bounds of the model. *)

\* Largest simulation time a caller sets.
MaxTime == 2
\* Number of public operations in one run of the engine.
MaxOps == 4
\* Number of templates added to the built-in pool.
MaxAdded == 1
\* Number of records in the emergent-event log.
MaxEvents == 2
\* Length of a template pool given to the filter on its own.
MaxPoolLen == 2
\* Number of replacements one ReplaceToken call is followed through.
MaxReplacements == 3
\* Number of nodes in a file given to the loader.
MaxUnits == 2

-----------------------------------------------------------------------------
(* Enumerations. *)

DialogueFunction ==
    {"NeutralAmbient", "Dread", "Misdirection", "RitualHint", "Rumor",
     "Bureaucratic", "ThreatBark", "Pain", "Surprise"}

RegionTone == {"ForestVillage", "SovietApartment", "IndustrialBlock", "BorderOutpost"}

SpeakerSocialRole ==
    {"Villager", "Bureaucrat", "Priest", "Smuggler", "Soldier", "Doctor", "Hermit"}

-----------------------------------------------------------------------------
(* Template conditions.  The built-in templates and the loader attach a     *)
(* closure over the context; each is a conjunction of these checks.  A     *)
(* threshold of -1 means the check is not made.                             *)

NoCondition ==
    [present |-> FALSE, night |-> FALSE, indoors |-> FALSE, bleeding |-> FALSE,
     threatAbove |-> -1, threatAtLeast |-> -1]

Condition(night, indoors, bleeding, threatAbove, threatAtLeast) ==
    [present |-> TRUE, night |-> night, indoors |-> indoors, bleeding |-> bleeding,
     threatAbove |-> threatAbove, threatAtLeast |-> threatAtLeast]

\* t.condition(ctx, profile)
EvalCondition(c, ctx, profile) ==
    /\ c.night => ctx.isNight
    /\ c.indoors => ctx.isIndoors
    /\ c.bleeding => ctx.playerIsBleeding
    /\ c.threatAbove >= 0 => ctx.threatLevel01 > c.threatAbove
    /\ c.threatAtLeast >= 0 => ctx.threatLevel01 >= c.threatAtLeast

-----------------------------------------------------------------------------
(* The built-in template pool. *)

T1 ==
    [id |-> "ONB_FOREST_DREAD_01", function |-> "Dread", regionTone |-> "ForestVillage",
     requiredTabooIds |-> <<>>, requiredEventIds |-> <<>>, disallowedLocationIds |-> <<>>,
     allowedRoles |-> <<"Villager", "Hermit">>,
     text |-> "The trees remember what the village forgets.",
     weight |-> 4,
     condition |-> Condition(TRUE, FALSE, FALSE, 3, -1)]

T2 ==
    [id |-> "ONB_VILLAGER_LIE_DISAPPEAR", function |-> "Misdirection",
     regionTone |-> "ForestVillage",
     requiredTabooIds |-> <<>>, requiredEventIds |-> <<"EV_WELL_COLLAPSE_ASHDITCH">>,
     disallowedLocationIds |-> <<>>,
     allowedRoles |-> <<"Villager">>,
     text |-> "No one has gone missing since they fixed the wires.",
     weight |-> 2,
     condition |-> Condition(TRUE, FALSE, FALSE, -1, -1)]

T3 ==
    [id |-> "ONB_RITUAL_HINT_WHISTLE", function |-> "RitualHint",
     regionTone |-> "ForestVillage",
     requiredTabooIds |-> <<"TABS_WHISTLE_AT_NIGHT">>, requiredEventIds |-> <<>>,
     disallowedLocationIds |-> <<>>,
     allowedRoles |-> <<"Villager", "Priest">>,
     text |-> "If the branches start singing, count your teeth and keep walking.",
     weight |-> 3,
     condition |-> Condition(TRUE, FALSE, FALSE, 2, -1)]

T4 ==
    [id |-> "BUREAU_FLAT_NOTICE_01", function |-> "Bureaucratic",
     regionTone |-> "SovietApartment",
     requiredTabooIds |-> <<>>, requiredEventIds |-> <<>>, disallowedLocationIds |-> <<>>,
     allowedRoles |-> <<"Bureaucrat", "Doctor">>,
     text |-> "If you hear singing in the stairwell, do not open your door. The building committee is handling it.",
     weight |-> 2,
     condition |-> Condition(TRUE, TRUE, FALSE, -1, -1)]

T5 ==
    [id |-> "GENERIC_PAIN_01", function |-> "Pain", regionTone |-> "ForestVillage",
     requiredTabooIds |-> <<>>, requiredEventIds |-> <<>>, disallowedLocationIds |-> <<>>,
     allowedRoles |-> <<>>,
     text |-> "Hold still. You're leaking like the old well.",
     weight |-> 6,
     condition |-> Condition(FALSE, FALSE, TRUE, -1, -1)]

InitializeDefaultTemplates == <<T1, T2, T3, T4, T5>>

-----------------------------------------------------------------------------
(* Trigger -> function mapping. *)

\* The router with thresholds that include their bound.
MapTriggerToFunction_Inclusive(triggerTag, ctx, profile) ==
    IF triggerTag = "on_enemy_spotted" THEN "ThreatBark"
    ELSE IF triggerTag = "on_player_pain" THEN "Pain"
    ELSE IF triggerTag = "on_player_surprised" THEN "Surprise"
    ELSE IF triggerTag = "on_player_breaks_taboo" THEN "RitualHint"
    ELSE IF triggerTag = "on_night_heartbeat"
         THEN (IF profile.superstition01 >= 6 THEN "Dread" ELSE "Rumor")
    ELSE IF triggerTag = "on_enter_safehouse"
         THEN (IF profile.bureaucratic01 >= 5 THEN "Bureaucratic" ELSE "NeutralAmbient")
    ELSE IF ctx.threatLevel01 >= 6 THEN "Dread"
    ELSE IF ctx.knownRumorIds # {} THEN "Rumor"
    ELSE "NeutralAmbient"

MapTriggerToFunction(triggerTag, ctx, profile) ==
    IF triggerTag = "on_enemy_spotted" THEN "ThreatBark"
    ELSE IF triggerTag = "on_player_pain" THEN "Pain"
    ELSE IF triggerTag = "on_player_surprised" THEN "Surprise"
    ELSE IF triggerTag = "on_player_breaks_taboo" THEN "RitualHint"
    ELSE IF triggerTag = "on_night_heartbeat"
         THEN (IF profile.superstition01 > 6 THEN "Dread" ELSE "Rumor")
    ELSE IF triggerTag = "on_enter_safehouse"
         THEN (IF profile.bureaucratic01 > 5 THEN "Bureaucratic" ELSE "NeutralAmbient")
    ELSE IF ctx.threatLevel01 > 6 THEN "Dread"
    ELSE IF ctx.knownRumorIds # {} THEN "Rumor"
    ELSE "NeutralAmbient"

-----------------------------------------------------------------------------
(* Cooldown handling.  A ledger key is the pair <<npcId, function>>. *)

\* A ledger key that leaves the category out.
CooldownKey_PerNpc(npcId, fn) == <<npcId, "NeutralAmbient">>

CooldownKey(npcId, fn) == <<npcId, fn>>

\* float cooldown = 0.0f, overwritten when the profile's map has the function
CooldownOf(profile, fn) ==
    IF fn \in DOMAIN profile.cooldownSeconds THEN profile.cooldownSeconds[fn] ELSE 0

\* CanFire with a strict comparison: the boundary elapsed = cooldown is refused.
CanFire_Strict(profile, fn) ==
    LET key == CooldownKey(profile.npcId, fn)
        cooldown == CooldownOf(profile, fn)
    IN  IF cooldown <= 0 THEN TRUE
        ELSE IF key \notin DOMAIN lastFireTimestamps THEN TRUE
        ELSE currentTimeSeconds - lastFireTimestamps[key] > cooldown

\* CanFire measuring the distance between the two times, whichever is later.
CanFire_Distance(profile, fn) ==
    LET key == CooldownKey(profile.npcId, fn)
        cooldown == CooldownOf(profile, fn)
        elapsed == currentTimeSeconds - lastFireTimestamps[key]
    IN  IF cooldown <= 0 THEN TRUE
        ELSE IF key \notin DOMAIN lastFireTimestamps THEN TRUE
        ELSE (IF elapsed < 0 THEN -elapsed ELSE elapsed) >= cooldown

\* CanFire without the cooldown check.
CanFire_Always(profile, fn) == TRUE

\* CanFire comparing the current time, not the time elapsed, with the cooldown.
CanFire_AbsoluteTime(profile, fn) ==
    LET key == CooldownKey(profile.npcId, fn)
        cooldown == CooldownOf(profile, fn)
    IN  IF cooldown <= 0 THEN TRUE
        ELSE IF key \notin DOMAIN lastFireTimestamps THEN TRUE
        ELSE currentTimeSeconds >= cooldown

CanFire(profile, fn) ==
    LET key == CooldownKey(profile.npcId, fn)
        cooldown == CooldownOf(profile, fn)
    IN  IF cooldown <= 0 THEN TRUE
        ELSE IF key \notin DOMAIN lastFireTimestamps THEN TRUE
        ELSE IF currentTimeSeconds - lastFireTimestamps[key] >= cooldown THEN TRUE
        ELSE FALSE

\* TouchCooldown that leaves the ledger as it was.
TouchCooldown_Dropped(npcId, fn) ==
    lastFireTimestamps

\* TouchCooldown with a key that ignores the function: every entry of the NPC moves.
TouchCooldown_WholeNpc(npcId, fn) ==
    LET key == CooldownKey(npcId, fn)
    IN  [k \in DOMAIN lastFireTimestamps \cup {key} |->
            IF k[1] = npcId THEN currentTimeSeconds ELSE lastFireTimestamps[k]]

\* TouchCooldown with a key that ignores the NPC: the category's entry of every NPC
\* is written.
TouchCooldown_WholeCategory(npcId, fn) ==
    [k \in DOMAIN lastFireTimestamps \cup {CooldownKey(n, fn) : n \in DOMAIN npcProfiles} |->
        IF k[2] = fn THEN currentTimeSeconds ELSE lastFireTimestamps[k]]

\* lastFireTimestamps[key] = currentTimeSeconds: the ledger after the call
TouchCooldown(npcId, fn) ==
    LET key == CooldownKey(npcId, fn)
    IN  [k \in DOMAIN lastFireTimestamps \cup {key} |->
            IF k = key THEN currentTimeSeconds ELSE lastFireTimestamps[k]]

-----------------------------------------------------------------------------
(* Candidate collection. *)

InSeq(x, s) == \E i \in DOMAIN s : s[i] = x

\* The region filter as a strict equality of tones.
RegionOk_Strict(t, ctx) == t.regionTone = ctx.regionTone

RegionOk(t, ctx) ==
    ~(/\ t.regionTone # ctx.regionTone
      /\ t.regionTone # "ForestVillage"
      /\ ctx.regionTone # "ForestVillage")

RoleOk(t, profile) ==
    t.allowedRoles # <<>> => InSeq(profile.role, t.allowedRoles)

\* The candidate filter without its required-taboo check.
TaboosOk_Skip(t, ctx) == TRUE

TaboosOk(t, ctx) ==
    \A i \in DOMAIN t.requiredTabooIds : t.requiredTabooIds[i] \in ctx.activeTabooIds

EventsOk(t, ctx) ==
    \A i \in DOMAIN t.requiredEventIds : t.requiredEventIds[i] \in ctx.recentEventIds

LocationBlocked(t, ctx) ==
    /\ ctx.locationId # ""
    /\ InSeq(ctx.locationId, t.disallowedLocationIds)

ConditionOk(t, ctx, profile) ==
    t.condition.present => EvalCondition(t.condition, ctx, profile)

\* One pass of the loop body: TRUE when the template reaches out.push_back(&t).
TemplatePasses(t, ctx, profile, fn) ==
    /\ t.function = fn
    /\ RegionOk(t, ctx)
    /\ RoleOk(t, profile)
    /\ TaboosOk(t, ctx)
    /\ EventsOk(t, ctx)
    /\ ~LocationBlocked(t, ctx)
    /\ ConditionOk(t, ctx, profile)

RECURSIVE CollectFrom(_, _, _, _, _)
\* The loop over the pool from index i on; a candidate is the index of its template
\* in the pool (the code keeps a pointer to the element).
CollectFrom(pool, i, ctx, profile, fn) ==
    IF i > Len(pool) THEN <<>>
    ELSE (IF TemplatePasses(pool[i], ctx, profile, fn) THEN <<i>> ELSE <<>>)
         \o CollectFrom(pool, i + 1, ctx, profile, fn)

\* CollectCandidates putting each match in front of the ones found before it.
CollectCandidates_Reversed(ctx, profile, fn) ==
    LET found == CollectFrom(templates, 1, ctx, profile, fn)
    IN  [k \in 1 .. Len(found) |-> found[Len(found) + 1 - k]]

CollectCandidates(ctx, profile, fn) == CollectFrom(templates, 1, ctx, profile, fn)

-----------------------------------------------------------------------------
(* Weighted selection.  The result is a pool index; 0 is the null pointer. *)

NullTemplate == 0

RECURSIVE SumWeights(_, _)
\* cumulative weight of the first n candidates
SumWeights(candidates, n) ==
    IF n = 0 THEN 0
    ELSE SumWeights(candidates, n - 1) + templates[candidates[n]].weight

TotalWeight(candidates) == SumWeights(candidates, Len(candidates))

\* The values rng.RandomFloat(0, totalWeight) is asked for, in whole weight units
\* (no draw is made for an empty list or a total <= 0: 0 stands for "no draw").
Rolls(candidates) ==
    IF candidates = <<>> \/ TotalWeight(candidates) <= 0 THEN {0}
    ELSE 0 .. TotalWeight(candidates)

\* One draw for each way the selection loop can end: a draw r selects the same
\* candidate as the least cumulative weight >= r, so the cumulative weights within
\* [0, totalWeight] stand for every real draw.
RollClasses(candidates) ==
    IF candidates = <<>> \/ TotalWeight(candidates) <= 0 THEN {0}
    ELSE {r \in Rolls(candidates) :
             \E i \in DOMAIN candidates : r = SumWeights(candidates, i)}

\* The selector comparing the draw strictly with the cumulative weight.
PickTemplateWeighted_Strict(candidates, roll) ==
    IF candidates = <<>> THEN NullTemplate
    ELSE IF TotalWeight(candidates) <= 0 THEN candidates[1]
    ELSE LET hits == {i \in DOMAIN candidates : roll < SumWeights(candidates, i)}
         IN  IF hits # {}
             THEN candidates[CHOOSE i \in hits : \A j \in hits : i <= j]
             ELSE candidates[Len(candidates)]

\* The selector giving no selection when the weights sum to <= 0.
PickTemplateWeighted_NullOnDegenerate(candidates, roll) ==
    IF candidates = <<>> THEN NullTemplate
    ELSE IF TotalWeight(candidates) <= 0 THEN NullTemplate
    ELSE LET hits == {i \in DOMAIN candidates : roll <= SumWeights(candidates, i)}
         IN  IF hits # {}
             THEN candidates[CHOOSE i \in hits : \A j \in hits : i <= j]
             ELSE candidates[Len(candidates)]

PickTemplateWeighted(candidates, roll) ==
    IF candidates = <<>> THEN NullTemplate
    ELSE IF TotalWeight(candidates) <= 0 THEN candidates[1]
    ELSE LET hits == {i \in DOMAIN candidates : roll <= SumWeights(candidates, i)}
         IN  IF hits # {}
             THEN candidates[CHOOSE i \in hits : \A j \in hits : i <= j]
             ELSE candidates[Len(candidates)]
-----------------------------------------------------------------------------
(* Template realization: token replacement. *)

\* std::string::npos
npos == 0

\* the characters of text at the 1-based positions from..to
Sub(text, from, to) == IF from > to THEN "" ELSE SubSeq(text, from, to)

\* text.find(token, pos): the first position >= pos where token occurs, or npos
Find(text, token, pos) ==
    LET hits == {p \in pos .. Len(text) - Len(token) + 1 :
                    Sub(text, p, p + Len(token) - 1) = token}
    IN  IF hits = {} THEN npos ELSE CHOOSE p \in hits : \A q \in hits : p <= q

\* text.replace(at, token.length(), value)
ReplaceAt(text, token, value, at) ==
    Sub(text, 1, at - 1) \o value \o Sub(text, at + Len(token), Len(text))

\* The scan position set back to the start of the inserted value.
NextScanPos_Rescan(at, value) == at

\* pos += value.length(), after pos = the position found
NextScanPos(at, value) == at + Len(value)

RECURSIVE ReplaceFrom(_, _, _, _)
\* The while loop of ReplaceToken with the scan position at pos.
ReplaceFrom(text, token, value, pos) ==
    LET at == Find(text, token, pos)
    IN  IF at = npos THEN text
        ELSE ReplaceFrom(ReplaceAt(text, token, value, at),
                         token, value, NextScanPos(at, value))

ReplaceToken(text, token, value) ==
    IF token = "" THEN text ELSE ReplaceFrom(text, token, value, 1)

PickPlayerCallsign(profile) ==
    CASE profile.role = "Bureaucrat" -> "citizen"
      [] profile.role = "Soldier"    -> "strannik"
      [] profile.role = "Priest"     -> "soul"
      [] OTHER                       -> "you"

PickLocalSpiritEpithet(ctx) ==
    CASE ctx.regionTone = "ForestVillage"   -> "the bent one"
      [] ctx.regionTone = "SovietApartment" -> "the stairwell listener"
      [] ctx.regionTone = "IndustrialBlock" -> "the thing in the ducts"
      [] ctx.regionTone = "BorderOutpost"   -> "the one beyond the fence"
      [] OTHER                              -> "it"

\* anyId is *ctx.activeTabooIds.begin(): whichever member the unordered set
\* iterates first.  The source's phrase for TABS_NO_BUCKETS_UPSIDE_DOWN has a
\* three-byte non-breaking hyphen; three bytes stand for it here.
PickTabooPhrase(ctx, anyId) ==
    IF ctx.activeTabooIds = {} THEN "the old rules"
    ELSE IF anyId = "TABS_WHISTLE_AT_NIGHT" THEN "no whistling after dark"
    ELSE IF anyId = "TABS_NO_BUCKETS_UPSIDE_DOWN" THEN "never leave a bucket mouth~~~down"
    ELSE "the village law"

\* The members begin() can return ("" stands for no member, when the set is empty).
AnyIds(ctx) == IF ctx.activeTabooIds = {} THEN {""} ELSE ctx.activeTabooIds

PickPlaceName(ctx) ==
    IF Find(ctx.locationId, "ASHDITCH", 1) # npos THEN "Ash Ditch"
    ELSE IF Find(ctx.locationId, "BLOCK_A", 1) # npos THEN "Block A stairwell"
    ELSE "this place"

PickBodySymptom(ctx) ==
    IF ctx.playerIsBleeding THEN "bleeding"
    ELSE IF ctx.playerLowHealth THEN "shaking"
    ELSE "breathing"

\* The substitution phase with a sixth token that it blanks.
SubstituteTokens_SixthToken(text, ctx, profile, anyId) ==
    LET s1 == ReplaceToken(text, "{PLAYER_CALLSIGN}", PickPlayerCallsign(profile))
        s2 == ReplaceToken(s1, "{LOCAL_SPIRIT}", PickLocalSpiritEpithet(ctx))
        s3 == ReplaceToken(s2, "{TABOO}", PickTabooPhrase(ctx, anyId))
        s4 == ReplaceToken(s3, "{PLACE}", PickPlaceName(ctx))
        s5 == ReplaceToken(s4, "{BODYSYMPTOM}", PickBodySymptom(ctx))
    IN  ReplaceToken(s5, "{WEATHER}", "")

\* The substitution phase of RealizeTemplate.
SubstituteTokens(text, ctx, profile, anyId) ==
    LET s1 == ReplaceToken(text, "{PLAYER_CALLSIGN}", PickPlayerCallsign(profile))
        s2 == ReplaceToken(s1, "{LOCAL_SPIRIT}", PickLocalSpiritEpithet(ctx))
        s3 == ReplaceToken(s2, "{TABOO}", PickTabooPhrase(ctx, anyId))
        s4 == ReplaceToken(s3, "{PLACE}", PickPlaceName(ctx))
    IN  ReplaceToken(s4, "{BODYSYMPTOM}", PickBodySymptom(ctx))

-----------------------------------------------------------------------------
(* Template realization: the style pass.  A draw is the record of what the  *)
(* random source returns to the calls the pass makes:                       *)
(*   ellipsis  rng.Chance(0.5f) of the truncation step                      *)
(*   tail      rng.Chance(0.4f) of the resigned tail                        *)
(*   tailIdx   rng.RandomInt(0, 3) choosing the tail                        *)
(*   prefix    rng.Chance(0.5f) of the bureaucratic lead-in                 *)
(*   fragment  rng.Chance(0.35f) of the superstitious fragment              *)

TruncateLimit == 60

tails ==
    <<" You get used to it.", " It was worse before.", " It never really stops.",
      " That's just how it is here.">>

\* line.rfind(ch, pos) over 1-based positions: the last position <= pos holding ch
RFind(line, ch, pos) ==
    LET hits == {p \in 1 .. pos : p <= Len(line) /\ Sub(line, p, p) = ch}
    IN  IF hits = {} THEN npos ELSE CHOOSE p \in hits : \A q \in hits : p >= q

\* Whether the truncation step reaches its rng.Chance call.
TruncationCuts(line, profile) ==
    /\ profile.verbosity01 < 3
    /\ Len(line) > TruncateLimit
    /\ RFind(line, " ", TruncateLimit + 1) # npos

\* The truncation step looking for a space strictly before index 60.
StyleTruncate_Before(line, profile, draw) ==
    IF profile.verbosity01 < 3 /\ Len(line) > TruncateLimit
           /\ RFind(line, " ", TruncateLimit) # npos
    THEN Sub(line, 1, RFind(line, " ", TruncateLimit) - 1)
            \o (IF draw.ellipsis THEN "..." ELSE "")
    ELSE line

StyleTruncate(line, profile, draw) ==
    IF TruncationCuts(line, profile)
    THEN Sub(line, 1, RFind(line, " ", TruncateLimit + 1) - 1)
            \o (IF draw.ellipsis THEN "..." ELSE "")
    ELSE line

\* The resigned tail appended whatever the category.
StyleTail_AnyCategory(line, profile, fn, draw) ==
    IF profile.fatalism01 > 6 /\ draw.tail
    THEN line \o tails[draw.tailIdx + 1]
    ELSE line

StyleTail(line, profile, fn, draw) ==
    IF profile.fatalism01 > 6 /\ draw.tail /\ fn \in {"Dread", "Rumor"}
    THEN line \o tails[draw.tailIdx + 1]
    ELSE line

StylePrefix(line, profile, fn, draw) ==
    IF profile.bureaucratic01 > 5 /\ fn = "Bureaucratic" /\ draw.prefix
    THEN "According to regulations, " \o line
    ELSE line

\* Whether the fragment step runs its body.
FragmentFires(profile, draw) == profile.superstition01 > 7 /\ draw.fragment

\* line.back() of an empty line is undefined: the step then reads (and may write)
\* the byte before the buffer.
StyleFragment(line, profile, draw) ==
    IF ~FragmentFires(profile, draw) THEN line
    ELSE IF line # "" /\ Sub(line, Len(line), Len(line)) = "."
    THEN Sub(line, 1, Len(line) - 1) \o " " \o "Just... don't ask."
    ELSE line \o "Just... don't ask."

\* The line the style pass leaves, and whether it read back() of an empty line.
ApplyStyleNoise(line, profile, fn, draw) ==
    LET l1 == StyleTruncate(line, profile, draw)
        l2 == StyleTail(l1, profile, fn, draw)
        l3 == StylePrefix(l2, profile, fn, draw)
    IN  [line |-> StyleFragment(l3, profile, draw),
         undefinedRead |-> FragmentFires(profile, draw) /\ l3 = ""]

\* The calls the style pass makes to the random source, in order.
RngCalls(line, profile, fn, draw) ==
    (IF TruncationCuts(line, profile) THEN <<"ellipsis">> ELSE <<>>)
    \o (IF profile.fatalism01 > 6 THEN <<"tail">> ELSE <<>>)
    \o (IF profile.fatalism01 > 6 /\ draw.tail /\ fn \in {"Dread", "Rumor"}
        THEN <<"tailIdx">> ELSE <<>>)
    \o (IF profile.bureaucratic01 > 5 /\ fn = "Bureaucratic" THEN <<"prefix">> ELSE <<>>)
    \o (IF profile.superstition01 > 7 THEN <<"fragment">> ELSE <<>>)

\* The draws the style pass can be given for this line; a call the pass does not
\* make is given FALSE (or 0).
StyleDraws(line, profile, fn) ==
    {d \in [ellipsis : IF TruncationCuts(line, profile) THEN BOOLEAN ELSE {FALSE},
            tail     : IF profile.fatalism01 > 6 THEN BOOLEAN ELSE {FALSE},
            tailIdx  : 0 .. Len(tails) - 1,
            prefix   : IF profile.bureaucratic01 > 5 /\ fn = "Bureaucratic"
                       THEN BOOLEAN ELSE {FALSE},
            fragment : IF profile.superstition01 > 7 THEN BOOLEAN ELSE {FALSE}] :
        ~(d.tail /\ fn \in {"Dread", "Rumor"}) => d.tailIdx = 0}

\* Every result RealizeTemplate can return for the chosen template: one per draw
\* of the random source, with anyId the taboo the context's set iterates first.
RealizeTemplate(t, ctx, profile, anyId) ==
    LET base == SubstituteTokens(t.text, ctx, profile, anyId)
    IN  {ApplyStyleNoise(base, profile, t.function, d) :
            d \in StyleDraws(base, profile, t.function)}

-----------------------------------------------------------------------------
(* The callers' inputs. *)

NpcIds == {"NPC_OLD_NEIGHBOR", "NPC_CLERK"}

Times == 0 .. MaxTime

\* A superstitious, fatalistic villager (the sliders of the demo's profile).
Neighbor(npcId) ==
    [npcId |-> npcId, role |-> "Villager",
     verbosity01 |-> 4, superstition01 |-> 9, bureaucratic01 |-> 0, fatalism01 |-> 8,
     cooldownSeconds |-> ("Dread" :> 2) @@ ("RitualHint" :> 1) @@ ("Pain" :> 0)]

\* A terse official.
Clerk(npcId) ==
    [npcId |-> npcId, role |-> "Bureaucrat",
     verbosity01 |-> 2, superstition01 |-> 5, bureaucratic01 |-> 8, fatalism01 |-> 3,
     cooldownSeconds |-> ("Dread" :> 1) @@ ("Bureaucratic" :> 1) @@ ("Rumor" :> 2)
                            @@ ("Pain" :> -1)]

\* A default-constructed NPCVoiceProfile.
DefaultProfile ==
    [npcId |-> "", role |-> "Villager",
     verbosity01 |-> 4, superstition01 |-> 8, bureaucratic01 |-> 0, fatalism01 |-> 7,
     cooldownSeconds |->
         ("NeutralAmbient" :> 20) @@ ("Dread" :> 15) @@ ("Misdirection" :> 25)
         @@ ("RitualHint" :> 45) @@ ("Rumor" :> 40) @@ ("Bureaucratic" :> 35)
         @@ ("ThreatBark" :> 5) @@ ("Pain" :> 3) @@ ("Surprise" :> 8)]

Profiles == {Neighbor(n) : n \in NpcIds} \cup {Clerk(n) : n \in NpcIds}

\* A default-constructed DialogueContext.
DefaultContext ==
    [regionTone |-> "ForestVillage", threatLevel01 |-> 0,
     isIndoors |-> FALSE, isNight |-> FALSE,
     playerLowHealth |-> FALSE, playerIsBleeding |-> FALSE,
     locationId |-> "", activeTabooIds |-> {}, recentEventIds |-> {},
     knownRumorIds |-> {}]

\* The context of the demo's main().
NightContext ==
    [regionTone |-> "ForestVillage", threatLevel01 |-> 5,
     isIndoors |-> FALSE, isNight |-> TRUE,
     playerLowHealth |-> TRUE, playerIsBleeding |-> TRUE,
     locationId |-> "PLC_VILLAGE_ASHDITCH",
     activeTabooIds |-> {"TABS_WHISTLE_AT_NIGHT"},
     recentEventIds |-> {"EV_WELL_COLLAPSE_ASHDITCH"},
     knownRumorIds |-> {}]

\* A stairwell at night, under threat.
FlatContext ==
    [regionTone |-> "SovietApartment", threatLevel01 |-> 7,
     isIndoors |-> TRUE, isNight |-> TRUE,
     playerLowHealth |-> FALSE, playerIsBleeding |-> FALSE,
     locationId |-> "PLC_BLOCK_A_STAIRS",
     activeTabooIds |-> {},
     recentEventIds |-> {},
     knownRumorIds |-> {"RUM_STAIRWELL"}]

Contexts == {DefaultContext, NightContext, FlatContext}

TriggerTags ==
    {"on_enemy_spotted", "on_player_pain", "on_player_surprised",
     "on_player_breaks_taboo", "on_night_heartbeat", "on_enter_safehouse", "on_idle"}

\* Templates a loader adds: a dread line of weight -2.0 for any speaker, and a long
\* rumor tied to an event.
XDread ==
    [id |-> "X_DREAD_MIND", function |-> "Dread", regionTone |-> "ForestVillage",
     requiredTabooIds |-> <<>>, requiredEventIds |-> <<>>, disallowedLocationIds |-> <<>>,
     allowedRoles |-> <<>>,
     text |-> "Mind {TABOO}, {PLAYER_CALLSIGN}.",
     weight |-> -4,
     condition |-> NoCondition]

XRumor ==
    [id |-> "X_RUMOR_SHIFT", function |-> "Rumor", regionTone |-> "SovietApartment",
     requiredTabooIds |-> <<>>, requiredEventIds |-> <<"EV_WELL_COLLAPSE_ASHDITCH">>,
     disallowedLocationIds |-> <<"PLC_MILL">>,
     allowedRoles |-> <<>>,
     text |-> "They say {PLACE} swallowed the night shift, and the foreman signed for every one.",
     weight |-> 2,
     condition |-> Condition(TRUE, FALSE, FALSE, -1, 5)]

AddedTemplates == {XDread, XRumor}

EventIds == {"EV_WELL_COLLAPSE_ASHDITCH"}
RegionIds == {"REG_ASHDITCH"}
Severities == {5}

-----------------------------------------------------------------------------
(* The engine. *)

\* The record of a call: the fields a call does not set keep these values.
NoCall ==
    [op |-> "none", npcId |-> "", triggerTag |-> "", ctx |-> DefaultContext,
     profile |-> DefaultProfile, ok |-> FALSE, fn |-> "none", outcome |-> "none", candidates |-> <<>>, roll |-> 0,
     chosen |-> NullTemplate, line |-> "", undefinedRead |-> FALSE, arg |-> 0]

Init ==
    /\ currentTimeSeconds = 0
    /\ npcProfiles = <<>>
    /\ templates = InitializeDefaultTemplates
    /\ emergentEvents = <<>>
    /\ lastFireTimestamps = <<>>
    /\ last = NoCall
    /\ emitted = [k \in NpcIds \X DialogueFunction |-> {}]
    /\ nOps = 0

SetCurrentTimeSeconds(t) ==
    /\ nOps < MaxOps
    /\ nOps' = nOps + 1
    /\ currentTimeSeconds' = t
    /\ last' = [NoCall EXCEPT !.op = "SetCurrentTimeSeconds", !.arg = t]
    /\ UNCHANGED <<npcProfiles, templates, emergentEvents, lastFireTimestamps, emitted>>

\* Registration that also forgets what the NPC has said.
RegisterNPCProfile_ClearsLedger(profile) ==
    /\ nOps < MaxOps
    /\ nOps' = nOps + 1
    /\ npcProfiles' = [n \in DOMAIN npcProfiles \cup {profile.npcId} |->
                          IF n = profile.npcId THEN profile ELSE npcProfiles[n]]
    /\ last' = [NoCall EXCEPT !.op = "RegisterNPCProfile", !.npcId = profile.npcId,
                              !.profile = profile]
    /\ emitted' = [k \in DOMAIN emitted |->
                      IF k[1] = profile.npcId THEN {} ELSE emitted[k]]
    /\ lastFireTimestamps' =
           [k \in {q \in DOMAIN lastFireTimestamps : q[1] # profile.npcId} |->
               lastFireTimestamps[k]]
    /\ UNCHANGED <<currentTimeSeconds, templates, emergentEvents>>

\* Registration with emplace, which keeps the profile an identifier already has.
RegisterNPCProfile_FirstWins(profile) ==
    /\ nOps < MaxOps
    /\ nOps' = nOps + 1
    /\ npcProfiles' = [n \in DOMAIN npcProfiles \cup {profile.npcId} |->
                          IF n \in DOMAIN npcProfiles THEN npcProfiles[n] ELSE profile]
    /\ last' = [NoCall EXCEPT !.op = "RegisterNPCProfile", !.npcId = profile.npcId,
                              !.profile = profile]
    /\ emitted' = [k \in DOMAIN emitted |->
                      IF k[1] = profile.npcId THEN {} ELSE emitted[k]]
    /\ UNCHANGED <<currentTimeSeconds, templates, emergentEvents, lastFireTimestamps>>

\* Registration that restarts the cooldowns the NPC is serving.
RegisterNPCProfile_RestartsCooldowns(profile) ==
    /\ nOps < MaxOps
    /\ nOps' = nOps + 1
    /\ npcProfiles' = [n \in DOMAIN npcProfiles \cup {profile.npcId} |->
                          IF n = profile.npcId THEN profile ELSE npcProfiles[n]]
    /\ last' = [NoCall EXCEPT !.op = "RegisterNPCProfile", !.npcId = profile.npcId,
                              !.profile = profile]
    /\ emitted' = [k \in DOMAIN emitted |->
                      IF k[1] = profile.npcId THEN {} ELSE emitted[k]]
    /\ lastFireTimestamps' =
           [k \in DOMAIN lastFireTimestamps |->
               IF k[1] = profile.npcId THEN currentTimeSeconds
               ELSE lastFireTimestamps[k]]
    /\ UNCHANGED <<currentTimeSeconds, templates, emergentEvents>>

RegisterNPCProfile(profile) ==
    /\ nOps < MaxOps
    /\ nOps' = nOps + 1
    /\ npcProfiles' = [n \in DOMAIN npcProfiles \cup {profile.npcId} |->
                          IF n = profile.npcId THEN profile ELSE npcProfiles[n]]
    /\ last' = [NoCall EXCEPT !.op = "RegisterNPCProfile", !.npcId = profile.npcId,
                              !.profile = profile]
    /\ emitted' = [k \in DOMAIN emitted |->
                      IF k[1] = profile.npcId THEN {} ELSE emitted[k]]
    /\ UNCHANGED <<currentTimeSeconds, templates, emergentEvents, lastFireTimestamps>>

\* GetNPCProfile reading the map with operator[], which yields a default-constructed
\* profile for an unknown identifier.
GetNPCProfile_Inserting(npcId) ==
    IF npcId \in DOMAIN npcProfiles THEN <<npcProfiles[npcId]>>
    ELSE <<[DefaultProfile EXCEPT !.npcId = npcId]>>

\* The optional profile: <<profile>>, or <<>> for the null pointer.
GetNPCProfile(npcId) ==
    IF npcId \in DOMAIN npcProfiles THEN <<npcProfiles[npcId]>> ELSE <<>>

\* NotifyEvent keeping only the latest record.
NotifyEvent_KeepsLatest(eventId, regionId, severity01) ==
    /\ nOps < MaxOps
    /\ Len(emergentEvents) < MaxEvents
    /\ nOps' = nOps + 1
    /\ emergentEvents' = <<[eventId |-> eventId, regionId |-> regionId,
                            severity01 |-> severity01,
                            timestampSeconds |-> currentTimeSeconds]>>
    /\ last' = [NoCall EXCEPT !.op = "NotifyEvent",
                              !.arg = [eventId |-> eventId, regionId |-> regionId,
                                       severity01 |-> severity01]]
    /\ UNCHANGED <<currentTimeSeconds, npcProfiles, templates, lastFireTimestamps, emitted>>

NotifyEvent(eventId, regionId, severity01) ==
    /\ nOps < MaxOps
    /\ Len(emergentEvents) < MaxEvents
    /\ nOps' = nOps + 1
    /\ emergentEvents' = Append(emergentEvents,
                                [eventId |-> eventId, regionId |-> regionId,
                                 severity01 |-> severity01,
                                 timestampSeconds |-> currentTimeSeconds])
    /\ last' = [NoCall EXCEPT !.op = "NotifyEvent",
                              !.arg = [eventId |-> eventId, regionId |-> regionId,
                                       severity01 |-> severity01]]
    /\ UNCHANGED <<currentTimeSeconds, npcProfiles, templates, lastFireTimestamps, emitted>>

\* add-template putting the template in front of the pool.
AddTemplate_Prepend(t) ==
    /\ nOps < MaxOps
    /\ Len(templates) < Len(InitializeDefaultTemplates) + MaxAdded
    /\ nOps' = nOps + 1
    /\ templates' = <<t>> \o templates
    /\ last' = [NoCall EXCEPT !.op = "AddTemplate", !.arg = t]
    /\ UNCHANGED <<currentTimeSeconds, npcProfiles, emergentEvents, lastFireTimestamps,
                   emitted>>

\* The engine's add-template operation: the loader hands it each unit it accepts.
AddTemplate(t) ==
    /\ nOps < MaxOps
    /\ Len(templates) < Len(InitializeDefaultTemplates) + MaxAdded
    /\ nOps' = nOps + 1
    /\ templates' = Append(templates, t)
    /\ last' = [NoCall EXCEPT !.op = "AddTemplate", !.arg = t]
    /\ UNCHANGED <<currentTimeSeconds, npcProfiles, emergentEvents, lastFireTimestamps,
                   emitted>>

\* GenerateLine recording the cooldown before it looks for candidates.
Rejects_TouchFirst(call, outcome) ==
    /\ last' = [call EXCEPT !.outcome = outcome]
    /\ lastFireTimestamps' = IF outcome = "no_candidates"
                             THEN TouchCooldown(call.npcId, call.fn)
                             ELSE lastFireTimestamps
    /\ UNCHANGED <<currentTimeSeconds, npcProfiles, templates, emergentEvents, emitted>>

\* A GenerateLine call that returns std::string() at the given stage.
Rejects(call, outcome) ==
    /\ last' = [call EXCEPT !.outcome = outcome]
    /\ UNCHANGED <<currentTimeSeconds, npcProfiles, templates, emergentEvents,
                   lastFireTimestamps, emitted>>

GenerateLine(npcId, triggerTag, ctx) ==
    /\ nOps < MaxOps
    /\ nOps' = nOps + 1
    /\ LET call == [NoCall EXCEPT !.op = "GenerateLine", !.npcId = npcId,
                                  !.triggerTag = triggerTag, !.ctx = ctx]
           found == GetNPCProfile(npcId)
       IN  IF found = <<>> THEN Rejects(call, "unknown_npc")
           ELSE
           LET profile == found[1]
               desiredFunction == MapTriggerToFunction(triggerTag, ctx, profile)
               routed == [call EXCEPT !.profile = profile, !.fn = desiredFunction]
           IN  IF ~CanFire(profile, desiredFunction) THEN Rejects(routed, "on_cooldown")
               ELSE
               LET candidates == CollectCandidates(ctx, profile, desiredFunction)
                   collected == [routed EXCEPT !.candidates = candidates]
               IN  IF candidates = <<>> THEN Rejects(collected, "no_candidates")
                   ELSE
                   \E roll \in RollClasses(candidates), anyId \in AnyIds(ctx) :
                     LET chosen == PickTemplateWeighted(candidates, roll)
                         picked == [collected EXCEPT !.roll = roll, !.chosen = chosen]
                     IN  IF chosen = NullTemplate THEN Rejects(picked, "null_pick")
                         ELSE
                         \E out \in RealizeTemplate(templates[chosen], ctx, profile, anyId) :
                           /\ lastFireTimestamps' =
                                  TouchCooldown(profile.npcId, desiredFunction)
                           /\ emitted' =
                                  [emitted EXCEPT ![<<npcId, desiredFunction>>] =
                                                      @ \cup {currentTimeSeconds}]
                           /\ last' = [picked EXCEPT
                                          !.outcome = "emitted",
                                          !.line = out.line,
                                          !.undefinedRead = out.undefinedRead]
                           /\ UNCHANGED <<currentTimeSeconds, npcProfiles, templates,
                                          emergentEvents>>

Next ==
    \/ \E t \in Times : SetCurrentTimeSeconds(t)
    \/ \E p \in Profiles : RegisterNPCProfile(p)
    \/ \E t \in AddedTemplates : AddTemplate(t)
    \/ \E e \in EventIds, r \in RegionIds, s \in Severities : NotifyEvent(e, r, s)
    \/ \E n \in NpcIds, g \in TriggerTags, c \in Contexts : GenerateLine(n, g, c)

Spec == Init /\ [][Next]_vars
-----------------------------------------------------------------------------
(* The router on its own: one call on a fresh engine, over every trigger tag and  *)
(* the slider and threat values on both sides of each threshold.                  *)

RouterTags == TriggerTags \cup {"", "ON_ENEMY_SPOTTED"}

RouterContexts ==
    {[DefaultContext EXCEPT !.threatLevel01 = th, !.knownRumorIds = r] :
        th \in {0, 6, 7, 10}, r \in {{}, {"RUM_STAIRWELL"}}}

RouterProfiles ==
    {[DefaultProfile EXCEPT !.superstition01 = s, !.bureaucratic01 = b] :
        s \in {0, 6, 7, 10}, b \in {0, 5, 6, 10}}

RouteCall(triggerTag, ctx, profile) ==
    /\ last.op = "none"
    /\ last' = [NoCall EXCEPT !.op = "MapTriggerToFunction", !.triggerTag = triggerTag,
                              !.ctx = ctx, !.profile = profile,
                              !.fn = MapTriggerToFunction(triggerTag, ctx, profile)]
    /\ UNCHANGED <<currentTimeSeconds, npcProfiles, templates, emergentEvents,
                   lastFireTimestamps, emitted, nOps>>

NextRouter == \E g \in RouterTags, c \in RouterContexts, p \in RouterProfiles : RouteCall(g, c, p)

SpecRouter == Init /\ [][NextRouter]_vars

-----------------------------------------------------------------------------
(* The cooldown check on its own: one call, over every ledger of two NPCs and two *)
(* categories, every current time and every configured cooldown.                  *)

LedgerFunctions == {"Dread", "Pain"}

LedgerKeys == NpcIds \X LedgerFunctions

Ledgers == UNION {[keys -> Times] : keys \in SUBSET LedgerKeys}

\* A profile whose cooldown map is empty, or holds one category.
CooldownMaps ==
    {<<>>} \cup {(f :> c) : f \in LedgerFunctions, c \in -1 .. MaxTime + 1}

\* The state before the call: both NPCs registered with the same cooldown map, any
\* ledger (an entry may be later than the current time: the caller may set the time
\* back), any current time.
InitCooldown ==
    /\ currentTimeSeconds \in Times
    /\ npcProfiles \in {[n \in NpcIds |->
                            [DefaultProfile EXCEPT !.npcId = n, !.cooldownSeconds = m]] :
                        m \in CooldownMaps}
    /\ templates = InitializeDefaultTemplates
    /\ emergentEvents = <<>>
    /\ lastFireTimestamps \in Ledgers
    /\ last = NoCall
    /\ emitted = [k \in NpcIds \X DialogueFunction |-> {}]
    /\ nOps = 0

CanFireCall(npcId, fn) ==
    /\ last.op = "none"
    /\ last' = [NoCall EXCEPT !.op = "CanFire", !.npcId = npcId,
                              !.profile = npcProfiles[npcId], !.fn = fn,
                              !.ok = CanFire(npcProfiles[npcId], fn)]
    /\ UNCHANGED <<currentTimeSeconds, npcProfiles, templates, emergentEvents,
                   lastFireTimestamps, emitted, nOps>>

NextCooldown == \E n \in NpcIds, f \in LedgerFunctions : CanFireCall(n, f)

SpecCooldown == InitCooldown /\ [][NextCooldown]_vars

-----------------------------------------------------------------------------
(* The candidate filter on its own: one call on a pool of loaded templates.       *)

\* Templates that differ in each field the filter reads.
FilterTemplates ==
    {[id |-> "F", function |-> f, regionTone |-> tone,
      requiredTabooIds |-> tb, requiredEventIds |-> ev, disallowedLocationIds |-> loc,
      allowedRoles |-> roles, text |-> "Mind {TABOO}.", weight |-> 2,
      condition |-> cond] :
        f \in {"Dread", "Rumor"},
        tone \in {"ForestVillage", "SovietApartment", "IndustrialBlock"},
        tb \in {<<>>, <<"TABS_WHISTLE_AT_NIGHT", "TABS_NO_BUCKETS_UPSIDE_DOWN">>},
        ev \in {<<>>, <<"EV_WELL_COLLAPSE_ASHDITCH">>},
        loc \in {<<>>, <<"PLC_VILLAGE_ASHDITCH", "PLC_BLOCK_A_STAIRS">>},
        roles \in {<<>>, <<"Villager", "Hermit">>},
        cond \in {NoCondition, Condition(TRUE, FALSE, FALSE, -1, 5)}}

\* Pools whose order and repetitions matter.
OrderedPools ==
    UNION {[1 .. n -> {T1, XDread, [XDread EXCEPT !.id = "X_DREAD_2", !.weight = 2]}] :
             n \in 0 .. MaxPoolLen}

FilterPools == {<<t>> : t \in FilterTemplates} \cup OrderedPools

FilterContexts ==
    {[DefaultContext EXCEPT !.regionTone = tone, !.activeTabooIds = tb,
                            !.recentEventIds = ev, !.locationId = loc,
                            !.isNight = night, !.threatLevel01 = 5] :
        tone \in {"ForestVillage", "SovietApartment"},
        tb \in {{}, {"TABS_WHISTLE_AT_NIGHT"},
                {"TABS_WHISTLE_AT_NIGHT", "TABS_NO_BUCKETS_UPSIDE_DOWN"}},
        ev \in {{}, {"EV_WELL_COLLAPSE_ASHDITCH"}},
        loc \in {"", "PLC_BLOCK_A_STAIRS", "PLC_MILL"},
        night \in BOOLEAN}

FilterProfiles == {[DefaultProfile EXCEPT !.role = r] : r \in {"Villager", "Priest"}}

InitFilter ==
    /\ currentTimeSeconds = 0
    /\ npcProfiles = <<>>
    /\ templates \in FilterPools
    /\ emergentEvents = <<>>
    /\ lastFireTimestamps = <<>>
    /\ last = NoCall
    /\ emitted = [k \in NpcIds \X DialogueFunction |-> {}]
    /\ nOps = 0

CollectCall(ctx, profile, fn) ==
    /\ last.op = "none"
    /\ last' = [NoCall EXCEPT !.op = "CollectCandidates", !.ctx = ctx,
                              !.profile = profile, !.fn = fn,
                              !.candidates = CollectCandidates(ctx, profile, fn)]
    /\ UNCHANGED <<currentTimeSeconds, npcProfiles, templates, emergentEvents,
                   lastFireTimestamps, emitted, nOps>>

NextFilter ==
    \E c \in FilterContexts, p \in FilterProfiles, f \in {"Dread", "Rumor"} :
        CollectCall(c, p, f)

SpecFilter == InitFilter /\ [][NextFilter]_vars

-----------------------------------------------------------------------------
(* The weighted selector on its own: one call on a list of candidates.            *)

\* Length of a candidate list given to the selector on its own.
MaxCandidates == 3

SelectorWeights == {-2, 0, 1, 3}

\* Pools of three templates with every combination of weights.
SelectorPools ==
    {<<[XDread EXCEPT !.id = "W1", !.weight = w1],
       [XDread EXCEPT !.id = "W2", !.weight = w2],
       [XDread EXCEPT !.id = "W3", !.weight = w3]>> :
        w1 \in SelectorWeights, w2 \in SelectorWeights, w3 \in SelectorWeights}

\* Lists of pointers into the pool, the empty list included.
CandidateLists == UNION {[1 .. n -> 1 .. 3] : n \in 0 .. MaxCandidates}

InitSelector ==
    /\ currentTimeSeconds = 0
    /\ npcProfiles = <<>>
    /\ templates \in SelectorPools
    /\ emergentEvents = <<>>
    /\ lastFireTimestamps = <<>>
    /\ last = NoCall
    /\ emitted = [k \in NpcIds \X DialogueFunction |-> {}]
    /\ nOps = 0

PickCall(candidates, roll) ==
    /\ last.op = "none"
    /\ last' = [NoCall EXCEPT !.op = "PickTemplateWeighted", !.candidates = candidates,
                              !.roll = roll,
                              !.chosen = PickTemplateWeighted(candidates, roll)]
    /\ UNCHANGED <<currentTimeSeconds, npcProfiles, templates, emergentEvents,
                   lastFireTimestamps, emitted, nOps>>

NextSelector == \E c \in CandidateLists : \E r \in Rolls(c) : PickCall(c, r)

SpecSelector == InitSelector /\ [][NextSelector]_vars
-----------------------------------------------------------------------------
(* ReplaceToken on its own, one loop iteration a step.  last.line is the    *)
(* text being rewritten and last.arg the frame of the call: the text it was *)
(* given, the token, the value, the scan position, the number of            *)
(* replacements made, and whether the call has returned.                    *)

ReplaceTexts ==
    {"", "{X}", "{X}{X}", "a {X} b {X}", "{X", "{{X}}", "x{X}{X", "no token",
     "Mind {TABOO}, {X}."}

ReplaceTokens == {"", "{X}", "{TABOO}"}

ReplaceValues == {"", "a", "a{X}b", "{X}", "{X}{X}", "{TABOO}", "{"}

InitReplace ==
    /\ currentTimeSeconds = 0
    /\ npcProfiles = <<>>
    /\ templates = InitializeDefaultTemplates
    /\ emergentEvents = <<>>
    /\ lastFireTimestamps = <<>>
    /\ last = NoCall
    /\ emitted = [k \in NpcIds \X DialogueFunction |-> {}]
    /\ nOps = 0

\* Entry of ReplaceToken: the early return on an empty token, or pos = 0.
ReplaceTokenCall(text, token, value) ==
    /\ last.op = "none"
    /\ last' = [NoCall EXCEPT !.op = "ReplaceToken", !.line = text,
                              !.arg = [text |-> text, token |-> token, value |-> value,
                                       pos |-> 1, replaced |-> 0,
                                       returned |-> (token = "")]]
    /\ UNCHANGED <<currentTimeSeconds, npcProfiles, templates, emergentEvents,
                   lastFireTimestamps, emitted, nOps>>

\* One evaluation of the loop condition and, when it holds, the loop body.
ReplaceTokenLoop ==
    /\ last.op = "ReplaceToken"
    /\ ~last.arg.returned
    /\ LET at == Find(last.line, last.arg.token, last.arg.pos)
       IN  IF at = npos
           THEN last' = [last EXCEPT !.arg.returned = TRUE]
           ELSE /\ last.arg.replaced < MaxReplacements
                /\ last' = [last EXCEPT
                       !.line = ReplaceAt(last.line, last.arg.token, last.arg.value, at),
                       !.arg.pos = NextScanPos(at, last.arg.value),
                       !.arg.replaced = @ + 1]
    /\ UNCHANGED <<currentTimeSeconds, npcProfiles, templates, emergentEvents,
                   lastFireTimestamps, emitted, nOps>>

NextReplace ==
    \/ \E text \in ReplaceTexts, token \in ReplaceTokens, value \in ReplaceValues :
           ReplaceTokenCall(text, token, value)
    \/ ReplaceTokenLoop

\* The thread that called ReplaceToken keeps running.
SpecReplace == InitReplace /\ [][NextReplace]_vars /\ WF_vars(NextReplace)

-----------------------------------------------------------------------------
(* The substitution phase of RealizeTemplate on its own.  last.arg is the   *)
(* template text and the member begin() returns; last.line the result.      *)

SubstituteTexts ==
    {"", "They say nothing.", "Cold {WEATHER} tonight.", "{PLAYER_CALLSIGN",
     "PLACE} and {place}", "{ TABOO }", "{{BODYSYMPTOM}",
     "Mind {TABOO}, {PLAYER_CALLSIGN}.", "{LOCAL_SPIRIT} waits at {PLACE}.",
     "You are {BODYSYMPTOM}. {BODYSYMPTOM}!"}

InitSubstitute ==
    /\ currentTimeSeconds = 0
    /\ npcProfiles = <<>>
    /\ templates = InitializeDefaultTemplates
    /\ emergentEvents = <<>>
    /\ lastFireTimestamps = <<>>
    /\ last = NoCall
    /\ emitted = [k \in NpcIds \X DialogueFunction |-> {}]
    /\ nOps = 0

SubstituteCall(text, ctx, profile, anyId) ==
    /\ last.op = "none"
    /\ last' = [NoCall EXCEPT !.op = "SubstituteTokens", !.ctx = ctx,
                              !.profile = profile,
                              !.arg = [text |-> text, anyId |-> anyId],
                              !.line = SubstituteTokens(text, ctx, profile, anyId)]
    /\ UNCHANGED <<currentTimeSeconds, npcProfiles, templates, emergentEvents,
                   lastFireTimestamps, emitted, nOps>>

NextSubstitute ==
    \E text \in SubstituteTexts, ctx \in Contexts, profile \in Profiles :
        \E anyId \in AnyIds(ctx) : SubstituteCall(text, ctx, profile, anyId)

SpecSubstitute == InitSubstitute /\ [][NextSubstitute]_vars

-----------------------------------------------------------------------------
(* The data loader.  A file is what opening and parsing it give: whether it *)
(* opens, whether its root is an array, and the array's nodes.  A node is   *)
(* either not an object or an object seen through the Get calls of the      *)
(* loader, a missing member having the default the call names.  Weights are *)
(* in halves and thresholds in tenths, as in the engine.  A warning is its  *)
(* kind and the identifier its text names.  The forbidden markers are the   *)
(* UTF-8 byte strings of the trade mark sign (three bytes) and of the       *)
(* registered sign (two bytes); "^TM" and "^R" stand for them.              *)

UpperCase == "ABCDEFGHIJKLMNOPQRSTUVWXYZ"
LowerCase == "abcdefghijklmnopqrstuvwxyz"

\* std::tolower of one character
ToLowerChar(c) ==
    LET hits == {i \in 1 .. Len(UpperCase) : Sub(UpperCase, i, i) = c}
    IN  IF hits = {} THEN c ELSE LET i == CHOOSE i \in hits : TRUE IN Sub(LowerCase, i, i)

RECURSIVE ToLower(_)
ToLower(str) ==
    IF str = "" THEN "" ELSE ToLowerChar(Sub(str, 1, 1)) \o ToLower(Sub(str, 2, Len(str)))

ParseFunction(str) ==
    LET v == ToLower(str)
    IN  CASE v = "neutralambient" -> "NeutralAmbient"
          [] v = "dread"          -> "Dread"
          [] v = "misdirection"   -> "Misdirection"
          [] v = "ritualhint"     -> "RitualHint"
          [] v = "rumor"          -> "Rumor"
          [] v = "bureaucratic"   -> "Bureaucratic"
          [] v = "threatbark"     -> "ThreatBark"
          [] v = "pain"           -> "Pain"
          [] v = "surprise"       -> "Surprise"
          [] OTHER                -> "NeutralAmbient"

ParseRegionTone(str) ==
    LET v == ToLower(str)
    IN  CASE v = "forestvillage"   -> "ForestVillage"
          [] v = "sovietapartment" -> "SovietApartment"
          [] v = "industrialblock" -> "IndustrialBlock"
          [] v = "borderoutpost"   -> "BorderOutpost"
          [] OTHER                 -> "ForestVillage"

ParseRole(str) ==
    LET v == ToLower(str)
    IN  CASE v = "villager"   -> "Villager"
          [] v = "bureaucrat" -> "Bureaucrat"
          [] v = "priest"     -> "Priest"
          [] v = "smuggler"   -> "Smuggler"
          [] v = "soldier"    -> "Soldier"
          [] v = "doctor"     -> "Doctor"
          [] v = "hermit"     -> "Hermit"
          [] OTHER            -> "Villager"

forbiddenMarkers == <<"^TM", "^R">>

\* The guard looking for the first marker only.
ContainsForbiddenIPTokens_FirstMarker(text) ==
    Find(text, forbiddenMarkers[1], 1) # npos

ContainsForbiddenIPTokens(text) ==
    \E k \in DOMAIN forbiddenMarkers : Find(text, forbiddenMarkers[k], 1) # npos

Warning(kind, id) == [kind |-> kind, id |-> id]

RECURSIVE MissingLinks(_, _, _, _)
\* One loop of ValidateKGLinks: a warning for each reference the view lacks.
MissingLinks(refs, known, kind, id) ==
    IF refs = <<>> THEN <<>>
    ELSE (IF Head(refs) \in known THEN <<>> ELSE <<Warning(kind, id)>>)
         \o MissingLinks(Tail(refs), known, kind, id)

ValidateKGLinks(t, kg) ==
    MissingLinks(t.requiredTabooIds, kg.tabooIds, "missing_taboo", t.id)
    \o MissingLinks(t.requiredEventIds, kg.eventIds, "missing_event", t.id)

\* The non-empty strings of a JSON array, in order.
NonEmptyStrings(arr) == SelectSeq(arr, LAMBDA str : str # "")

\* The template the loader builds from an object node it accepts.
BuildTemplate(node) ==
    LET roles == NonEmptyStrings(node.allowedRoles)
    IN  [id |-> node.id,
         function |-> ParseFunction(node.function),
         regionTone |-> ParseRegionTone(node.regionTone),
         requiredTabooIds |-> NonEmptyStrings(node.requiredTabooIds),
         requiredEventIds |-> NonEmptyStrings(node.requiredEventIds),
         disallowedLocationIds |-> NonEmptyStrings(node.disallowedLocationIds),
         allowedRoles |-> [k \in DOMAIN roles |-> ParseRole(roles[k])],
         text |-> node.text,
         weight |-> node.weight,
         condition |->
             IF node.requiresNight \/ node.requiresPlayerBleeding
                    \/ node.minThreatLevel01 >= 0
             THEN Condition(node.requiresNight, FALSE, node.requiresPlayerBleeding, -1,
                            IF node.minThreatLevel01 >= 0
                            THEN node.minThreatLevel01 ELSE -1)
             ELSE NoCondition]

RECURSIVE LoadUnits(_, _)
\* The loop over the array's nodes: the templates handed to AddTemplate, in order,
\* and the warnings pushed, in order.
LoadUnits(nodes, kg) ==
    IF nodes = <<>> THEN [handed |-> <<>>, warnings |-> <<>>]
    ELSE LET node == Head(nodes)
             rest == LoadUnits(Tail(nodes), kg)
         IN  IF ~node.isObject THEN rest
             ELSE IF node.id = "" \/ node.text = ""
             THEN [rest EXCEPT !.warnings = <<Warning("missing_id_text", "")>> \o @]
             ELSE IF ContainsForbiddenIPTokens(node.text)
             THEN [rest EXCEPT !.warnings = <<Warning("forbidden_markers", node.id)>> \o @]
             ELSE LET t == BuildTemplate(node)
                  IN  [handed |-> <<t>> \o rest.handed,
                       warnings |-> ValidateKGLinks(t, kg) \o rest.warnings]

\* A DialogueUnit with every optional member missing.
PlainUnit ==
    [isObject |-> TRUE, id |-> "DU_A", function |-> "NeutralAmbient",
     regionTone |-> "ForestVillage", text |-> "Quiet.", weight |-> 2,
     allowedRoles |-> <<>>, requiredTabooIds |-> <<>>, requiredEventIds |-> <<>>,
     disallowedLocationIds |-> <<>>, requiresNight |-> FALSE,
     requiresPlayerBleeding |-> FALSE, minThreatLevel01 |-> -10]

\* A DialogueUnit with every member set.
RichUnit ==
    [isObject |-> TRUE, id |-> "DU_RICH", function |-> "RITUALHINT",
     regionTone |-> "sovietApartment", text |-> "Mind {TABOO}.", weight |-> 3,
     allowedRoles |-> <<"priest", "", "Cook">>,
     requiredTabooIds |-> <<"TABS_WHISTLE_AT_NIGHT", "">>,
     requiredEventIds |-> <<"EV_UNKNOWN">>,
     disallowedLocationIds |-> <<"PLC_MILL">>, requiresNight |-> TRUE,
     requiresPlayerBleeding |-> FALSE, minThreatLevel01 |-> 5]

\* A node of the array that is not an object.
NonObjectNode == [PlainUnit EXCEPT !.isObject = FALSE]

LoaderUnitIds == {"", "DU_A"}

LoaderUnitTexts == {"", "Quiet.", "Brand^TM tea", "Reg^R {PLACE}", "TM and R, ^ too"}

LoaderNodes ==
    {[PlainUnit EXCEPT !.id = id, !.text = text] :
        id \in LoaderUnitIds, text \in LoaderUnitTexts}
    \cup {RichUnit, NonObjectNode}

LoaderFiles ==
    {[opens |-> FALSE, isArray |-> FALSE, nodes |-> <<>>],
     [opens |-> TRUE, isArray |-> FALSE, nodes |-> <<>>]}
    \cup {[opens |-> TRUE, isArray |-> TRUE, nodes |-> nodes] :
             nodes \in UNION {[1 .. n -> LoaderNodes] : n \in 0 .. MaxUnits}}

LoaderKGViews ==
    {[tabooIds |-> {}, eventIds |-> {}],
     [tabooIds |-> {"TABS_WHISTLE_AT_NIGHT"}, eventIds |-> {"EV_WELL_COLLAPSE_ASHDITCH"}]}

InitLoader ==
    /\ currentTimeSeconds = 0
    /\ npcProfiles = <<>>
    /\ templates = InitializeDefaultTemplates
    /\ emergentEvents = <<>>
    /\ lastFireTimestamps = <<>>
    /\ last = NoCall
    /\ emitted = [k \in NpcIds \X DialogueFunction |-> {}]
    /\ nOps = 0

\* The pool after add-template has been called with each template of a list.
AddTemplates(pool, handed) == pool \o handed

\* last.ok is the value returned; last.arg the file, the view, the templates handed to
\* the engine and outWarnings.
LoadDialogueUnitsFromFile(file, kg) ==
    /\ last.op = "none"
    /\ LET loaded ==
               IF ~file.opens
               THEN [handed |-> <<>>, warnings |-> <<Warning("open_failed", "")>>]
               ELSE IF ~file.isArray
               THEN [handed |-> <<>>, warnings |-> <<Warning("invalid_json", "")>>]
               ELSE LoadUnits(file.nodes, kg)
       IN  /\ templates' = AddTemplates(templates, loaded.handed)
           /\ last' = [NoCall EXCEPT !.op = "LoadDialogueUnitsFromFile",
                                     !.ok = file.opens /\ file.isArray,
                                     !.arg = [file |-> file, kg |-> kg,
                                              handed |-> loaded.handed,
                                              warnings |-> loaded.warnings]]
    /\ UNCHANGED <<currentTimeSeconds, npcProfiles, emergentEvents, lastFireTimestamps,
                   emitted, nOps>>

NextLoader ==
    \E file \in LoaderFiles, kg \in LoaderKGViews : LoadDialogueUnitsFromFile(file, kg)

SpecLoader == InitLoader /\ [][NextLoader]_vars

-----------------------------------------------------------------------------
(* The style pass on its own.  last.arg is the line given, the draw, the    *)
(* line as the truncation step leaves it and the calls made to the random   *)
(* source; last.line is the line returned and last.undefinedRead whether    *)
(* the pass read back() of an empty line.                                   *)

TenChars == "abcdefghij"
SixtyChars == TenChars \o TenChars \o TenChars \o TenChars \o TenChars \o TenChars

StyleLines ==
    {"",
     "Short line.",
     "Papers ready.",
     \* 60 characters, with spaces
     "The well was dry before the snows, and nobody wrote it down.",
     \* a space at index 60 and one before it
     "ab cdefghi" \o TenChars \o TenChars \o TenChars \o TenChars \o TenChars \o " tail.",
     \* the first space at index 61
     SixtyChars \o "k and more.",
     \* one space, at index 0
     " " \o SixtyChars \o "klmn",
     \* no space at all
     SixtyChars \o "klmno.",
     "They say the mill swallowed the night shift, and the foreman signed for every one."}

StyleProfiles ==
    {[DefaultProfile EXCEPT !.verbosity01 = v, !.fatalism01 = f,
                            !.bureaucratic01 = b, !.superstition01 = su] :
        v \in {2, 3}, f \in {6, 7}, b \in {5, 6}, su \in {7, 8}}

StyleFunctions == {"Dread", "Rumor", "Bureaucratic", "Pain"}

InitStyle ==
    /\ currentTimeSeconds = 0
    /\ npcProfiles = <<>>
    /\ templates = InitializeDefaultTemplates
    /\ emergentEvents = <<>>
    /\ lastFireTimestamps = <<>>
    /\ last = NoCall
    /\ emitted = [k \in NpcIds \X DialogueFunction |-> {}]
    /\ nOps = 0

StyleCall(line, profile, fn, draw) ==
    /\ last.op = "none"
    /\ LET out == ApplyStyleNoise(line, profile, fn, draw)
       IN  last' = [NoCall EXCEPT !.op = "ApplyStyleNoise", !.profile = profile,
                                  !.fn = fn, !.line = out.line,
                                  !.undefinedRead = out.undefinedRead,
                                  !.arg = [line |-> line, draw |-> draw,
                                           truncated |-> StyleTruncate(line, profile, draw),
                                           calls |-> RngCalls(line, profile, fn, draw)]]
    /\ UNCHANGED <<currentTimeSeconds, npcProfiles, templates, emergentEvents,
                   lastFireTimestamps, emitted, nOps>>

NextStyle ==
    \E line \in StyleLines, profile \in StyleProfiles, fn \in StyleFunctions :
        \E draw \in StyleDraws(line, profile, fn) : StyleCall(line, profile, fn, draw)

SpecStyle == InitStyle /\ [][NextStyle]_vars

-----------------------------------------------------------------------------
(* The engine after the loader has run: the pool is the built-in templates  *)
(* followed by the units of a file, two NPCs are registered, and the host   *)
(* calls GenerateLine.                                                      *)

\* A pain line that opens with its only space.
SpaceUnit ==
    [PlainUnit EXCEPT !.id = "DU_SPACE", !.function = "pain",
                      !.text = " " \o SixtyChars \o "klmn"]

\* A pain line of ordinary words, longer than the truncation limit.
LongUnit ==
    [PlainUnit EXCEPT !.id = "DU_LONG", !.function = "Pain",
                      !.text = "Hold still, {PLAYER_CALLSIGN}, you are {BODYSYMPTOM} on the floor again."]

\* A short ambient line.
ShortUnit == [PlainUnit EXCEPT !.id = "DU_SHORT", !.text = "Quiet night."]

EmitFiles ==
    UNION {[1 .. n -> {SpaceUnit, LongUnit, ShortUnit}] : n \in 0 .. MaxUnits}

\* The demo's villager, grown terse.
TerseNeighbor(npcId) == [Neighbor(npcId) EXCEPT !.verbosity01 = 2]

EmitTriggers == {"on_player_pain", "on_night_heartbeat", "on_idle"}

EmitContexts == {DefaultContext, NightContext}

InitEmit ==
    /\ currentTimeSeconds = 0
    /\ npcProfiles = [n \in NpcIds |->
                         IF n = "NPC_CLERK" THEN Clerk(n) ELSE TerseNeighbor(n)]
    /\ \E nodes \in EmitFiles :
           templates = AddTemplates(InitializeDefaultTemplates,
                                    LoadUnits(nodes, [tabooIds |-> {}, eventIds |-> {}]).handed)
    /\ emergentEvents = <<>>
    /\ lastFireTimestamps = <<>>
    /\ last = NoCall
    /\ emitted = [k \in NpcIds \X DialogueFunction |-> {}]
    /\ nOps = 0

NextEmit ==
    \E npcId \in NpcIds, triggerTag \in EmitTriggers, ctx \in EmitContexts :
        GenerateLine(npcId, triggerTag, ctx)

SpecEmit == InitEmit /\ [][NextEmit]_vars

-----------------------------------------------------------------------------
(* The engine with its NPCs registered, under a host that moves the clock,  *)
(* forwards or backwards, between GenerateLine calls.                       *)

ClockTriggers == {"on_night_heartbeat", "on_player_breaks_taboo", "on_player_pain"}

InitClock ==
    /\ currentTimeSeconds = 0
    /\ npcProfiles = [n \in NpcIds |->
                         IF n = "NPC_CLERK" THEN Clerk(n) ELSE Neighbor(n)]
    /\ templates = InitializeDefaultTemplates
    /\ emergentEvents = <<>>
    /\ lastFireTimestamps = <<>>
    /\ last = NoCall
    /\ emitted = [k \in NpcIds \X DialogueFunction |-> {}]
    /\ nOps = 0

NextClock ==
    \/ \E t \in Times : SetCurrentTimeSeconds(t)
    \/ \E npcId \in NpcIds, triggerTag \in ClockTriggers, ctx \in {NightContext, FlatContext} :
           GenerateLine(npcId, triggerTag, ctx)

SpecClock == InitClock /\ [][NextClock]_vars

-----------------------------------------------------------------------------
(* GenerateLine called from two host threads with no serialization.  The call *)
(* takes no lock, so the steps up to the pick (which read the ledger) and the *)
(* steps from TouchCooldown on (which write it) of two calls can interleave.  *)
(* last.arg holds, per thread, the call in flight or the call that returned   *)
(* last, and nOps counts the steps taken, which orders them.                  *)

Threads == {1, 2}

\* A thread that has made no call yet.
IdleThread ==
    [pc |-> "idle", call |-> NoCall, checkedAt |-> 0, returnedAt |-> 0, firedAt |-> 0]

ThreadTriggers == {"on_night_heartbeat", "on_player_pain"}

InitThreads ==
    /\ currentTimeSeconds = 0
    /\ npcProfiles = [n \in NpcIds |->
                         IF n = "NPC_CLERK" THEN Clerk(n) ELSE Neighbor(n)]
    /\ templates = InitializeDefaultTemplates
    /\ emergentEvents = <<>>
    /\ lastFireTimestamps = <<>>
    /\ last = [NoCall EXCEPT !.arg = [t \in Threads |-> IdleThread]]
    /\ emitted = [k \in NpcIds \X DialogueFunction |-> {}]
    /\ nOps = 0

\* The call of thread t returns std::string() at the given stage.
ThreadRejects(t, call, outcome) ==
    /\ last' = [last EXCEPT !.arg[t] =
                   [pc |-> "idle", call |-> [call EXCEPT !.outcome = outcome],
                    checkedAt |-> nOps + 1, returnedAt |-> nOps + 1, firedAt |-> 0]]
    /\ UNCHANGED <<currentTimeSeconds, npcProfiles, templates, emergentEvents,
                   lastFireTimestamps, emitted>>

\* GenerateLine from its entry to the pick: the profile lookup, the router,
\* CanFire, CollectCandidates and PickTemplateWeighted.
ThreadCheck(t, npcId, triggerTag, ctx) ==
    /\ nOps < MaxOps
    /\ nOps' = nOps + 1
    /\ last.arg[t].pc = "idle"
    /\ LET call == [NoCall EXCEPT !.op = "GenerateLine", !.npcId = npcId,
                                  !.triggerTag = triggerTag, !.ctx = ctx]
           found == GetNPCProfile(npcId)
       IN  IF found = <<>> THEN ThreadRejects(t, call, "unknown_npc")
           ELSE
           LET profile == found[1]
               desiredFunction == MapTriggerToFunction(triggerTag, ctx, profile)
               routed == [call EXCEPT !.profile = profile, !.fn = desiredFunction]
           IN  IF ~CanFire(profile, desiredFunction)
               THEN ThreadRejects(t, routed, "on_cooldown")
               ELSE
               LET candidates == CollectCandidates(ctx, profile, desiredFunction)
                   collected == [routed EXCEPT !.candidates = candidates]
               IN  IF candidates = <<>> THEN ThreadRejects(t, collected, "no_candidates")
                   ELSE
                   \E roll \in RollClasses(candidates) :
                     LET chosen == PickTemplateWeighted(candidates, roll)
                         picked == [collected EXCEPT !.roll = roll, !.chosen = chosen]
                     IN  IF chosen = NullTemplate
                         THEN ThreadRejects(t, picked, "null_pick")
                         ELSE
                         /\ last' = [last EXCEPT !.arg[t] =
                                        [pc |-> "picked", call |-> picked,
                                         checkedAt |-> nOps + 1, returnedAt |-> 0,
                                         firedAt |-> 0]]
                         /\ UNCHANGED <<currentTimeSeconds, npcProfiles, templates,
                                        emergentEvents, lastFireTimestamps, emitted>>

\* GenerateLine from TouchCooldown to its return: the ledger entry is written
\* with the time of this step and the line is realized.
ThreadTouch(t) ==
    /\ nOps < MaxOps
    /\ nOps' = nOps + 1
    /\ last.arg[t].pc = "picked"
    /\ LET call == last.arg[t].call
       IN  \E anyId \in AnyIds(call.ctx) :
             \E out \in RealizeTemplate(templates[call.chosen], call.ctx,
                                        call.profile, anyId) :
               /\ lastFireTimestamps' = TouchCooldown(call.profile.npcId, call.fn)
               /\ emitted' = [emitted EXCEPT ![<<call.npcId, call.fn>>] =
                                                 @ \cup {currentTimeSeconds}]
               /\ last' = [last EXCEPT !.arg[t] =
                              [pc |-> "idle",
                               call |-> [call EXCEPT !.outcome = "emitted",
                                                     !.line = out.line,
                                                     !.undefinedRead = out.undefinedRead],
                               checkedAt |-> last.arg[t].checkedAt,
                               returnedAt |-> nOps + 1,
                               firedAt |-> currentTimeSeconds]]
               /\ UNCHANGED <<currentTimeSeconds, npcProfiles, templates,
                              emergentEvents>>

\* The host sets the time while calls may be in flight.
ThreadSetTime(t) ==
    /\ nOps < MaxOps
    /\ nOps' = nOps + 1
    /\ currentTimeSeconds' = t
    /\ UNCHANGED <<npcProfiles, templates, emergentEvents, lastFireTimestamps,
                   last, emitted>>

NextThreads ==
    \/ \E t \in Threads, npcId \in NpcIds, triggerTag \in ThreadTriggers :
           ThreadCheck(t, npcId, triggerTag, NightContext)
    \/ \E t \in Threads : ThreadTouch(t)
    \/ \E t \in Times : ThreadSetTime(t)

SpecThreads == InitThreads /\ [][NextThreads]_vars

-----------------------------------------------------------------------------
(* Claims. *)

\* A step of the engine that is a GenerateLine call.
GenerateLineStep == nOps' = nOps + 1 /\ last'.op = "GenerateLine"

\* The ledger key of the most recent call.
LastKey == CooldownKey(last.npcId, last.fn)

\* C1: cooldown gating.  When a GenerateLine call is routed to a category K whose
\* cooldown C in the NPC's registered profile is positive, and the NPC has emitted a
\* K-line at a time t since it was last registered with t <= current time < t + C,
\* the call returns the empty string and emits nothing.
C1_CooldownGating ==
    [][GenerateLineStep =>
        LET key == CooldownKey(last'.npcId, last'.fn)
            cooldown == IF last'.fn \in DOMAIN last'.profile.cooldownSeconds
                        THEN last'.profile.cooldownSeconds[last'.fn] ELSE 0
        IN  (/\ last'.npcId \in DOMAIN npcProfiles
             /\ cooldown > 0
             /\ \E t \in emitted[key] :
                    t <= currentTimeSeconds /\ currentTimeSeconds < t + cooldown)
            => last'.line = "" /\ last'.outcome # "emitted"]_vars

\* C1 witness: a call refused inside the window of an emission made at an earlier time.
C1_Witness ==
    /\ last.op = "GenerateLine"
    /\ last.outcome = "on_cooldown"
    /\ last.line = ""
    /\ \E t \in emitted[LastKey] :
           /\ t < currentTimeSeconds
           /\ currentTimeSeconds < t + last.profile.cooldownSeconds[last.fn]

\* C2: a GenerateLine call that fails (unknown NPC, category on cooldown, no matching
\* candidate) returns the empty string and leaves the cooldown ledger exactly as it
\* was, so whether the routed category may fire is the same after the call as before.
C2_FailedCallKeepsLedger ==
    [][(GenerateLineStep
        /\ last'.outcome \in {"unknown_npc", "on_cooldown", "no_candidates"})
       => /\ last'.line = ""
          /\ lastFireTimestamps' = lastFireTimestamps
          /\ \A n \in DOMAIN npcProfiles : \A f \in DialogueFunction :
                 CanFire(npcProfiles[n], f)' = CanFire(npcProfiles[n], f)]_vars

\* C2 witness: a call that found no candidate for a category with a positive
\* cooldown, made when the ledger already held entries, and that left no entry.
C2_Witness ==
    /\ last.op = "GenerateLine"
    /\ last.outcome = "no_candidates"
    /\ last.fn \in DOMAIN last.profile.cooldownSeconds
    /\ last.profile.cooldownSeconds[last.fn] > 0
    /\ lastFireTimestamps # <<>>
    /\ LastKey \notin DOMAIN lastFireTimestamps

\* C3: a successful GenerateLine call sets the ledger entry of (npcId, routed
\* category) to the current time and changes no other ledger entry, nor the profile
\* registry, the template pool, the event log or the current time.
C3_SuccessTouchesOneEntry ==
    [][(GenerateLineStep /\ last'.outcome = "emitted")
       => LET key == CooldownKey(last'.npcId, last'.fn)
          IN  /\ last'.fn = MapTriggerToFunction(last'.triggerTag, last'.ctx,
                                                 npcProfiles[last'.npcId])
              /\ DOMAIN lastFireTimestamps' = DOMAIN lastFireTimestamps \cup {key}
              /\ lastFireTimestamps'[key] = currentTimeSeconds
              /\ \A k \in DOMAIN lastFireTimestamps \ {key} :
                     lastFireTimestamps'[k] = lastFireTimestamps[k]
              /\ npcProfiles' = npcProfiles
              /\ templates' = templates
              /\ emergentEvents' = emergentEvents
              /\ currentTimeSeconds' = currentTimeSeconds]_vars

\* C3 witness: an emission made when the ledger held an entry of another time for
\* another key.
C3_Witness ==
    /\ last.op = "GenerateLine"
    /\ last.outcome = "emitted"
    /\ \E k \in DOMAIN lastFireTimestamps :
           k # LastKey /\ lastFireTimestamps[k] # currentTimeSeconds

\* C4: GenerateLine for an NPC identifier that was never registered returns the empty
\* string, whatever the trigger, the context, the time and the pool.
C4_UnknownNpcEmpty ==
    (last.op = "GenerateLine" /\ last.npcId \notin DOMAIN npcProfiles)
        => last.line = "" /\ last.outcome = "unknown_npc"

\* C4 witness: such a call in the demo's night context, which has matching templates,
\* while another NPC is registered, at a later time and with a template added.
C4_Witness ==
    /\ last.op = "GenerateLine"
    /\ last.npcId \notin DOMAIN npcProfiles
    /\ DOMAIN npcProfiles # {}
    /\ last.ctx = NightContext
    /\ last.triggerTag = "on_night_heartbeat"
    /\ currentTimeSeconds > 0
\* Elements of a list, as a set.
Range(s) == {s[i] : i \in DOMAIN s}

\* The match condition as the filter's contract states it.
C5_Matches(t, ctx, profile, fn) ==
    /\ t.function = fn
    /\ (t.regionTone = ctx.regionTone \/ t.regionTone = "ForestVillage"
            \/ ctx.regionTone = "ForestVillage")
    /\ (t.allowedRoles = <<>> \/ profile.role \in Range(t.allowedRoles))
    /\ Range(t.requiredTabooIds) \subseteq ctx.activeTabooIds
    /\ Range(t.requiredEventIds) \subseteq ctx.recentEventIds
    /\ (ctx.locationId = "" \/ ctx.locationId \notin Range(t.disallowedLocationIds))
    /\ (~t.condition.present \/ EvalCondition(t.condition, ctx, profile))

\* C5: candidate filter.  A template of the pool is in the list CollectCandidates
\* produces if and only if its category is the requested one, its tone is compatible
\* (equal, or either side the baseline tone), its role list is empty or has the
\* profile's role, its required taboos and events are all present in the context, the
\* context has no location or a location the template does not disallow, and the
\* template has no predicate or one that accepts.
C5_CandidateFilter ==
    last.op = "CollectCandidates" =>
        \A i \in DOMAIN templates :
            (i \in Range(last.candidates))
                <=> C5_Matches(templates[i], last.ctx, last.profile, last.fn)

\* C5 witness: a pool of two templates of the requested category of which the filter
\* keeps one.
C5_Witness ==
    /\ last.op = "CollectCandidates"
    /\ Len(templates) = 2
    /\ \A i \in DOMAIN templates : templates[i].function = last.fn
    /\ Len(last.candidates) = 1

\* C6: the template GenerateLine realizes has the category the router returned for
\* the call and all its required taboos and events in the call's context; and when no
\* template of the pool matches the routed category the call returns empty.
C6_EmittedTemplateMatches ==
    (last.op = "GenerateLine" /\ last.npcId \in DOMAIN npcProfiles) =>
        LET routed == MapTriggerToFunction(last.triggerTag, last.ctx,
                                           npcProfiles[last.npcId])
        IN  /\ last.outcome = "emitted" =>
                /\ last.chosen \in DOMAIN templates
                /\ templates[last.chosen].function = routed
                /\ Range(templates[last.chosen].requiredTabooIds)
                       \subseteq last.ctx.activeTabooIds
                /\ Range(templates[last.chosen].requiredEventIds)
                       \subseteq last.ctx.recentEventIds
            /\ (\A i \in DOMAIN templates :
                    ~C5_Matches(templates[i], last.ctx, npcProfiles[last.npcId], routed))
                => last.line = "" /\ last.outcome # "emitted"

\* C6 witness: a template with a required taboo is emitted.
C6_Witness ==
    /\ last.op = "GenerateLine"
    /\ last.outcome = "emitted"
    /\ templates[last.chosen].requiredTabooIds # <<>>
    /\ last.line # ""

\* The router's decision table.
C7_Table(triggerTag, ctx, profile) ==
    CASE triggerTag = "on_enemy_spotted"       -> "ThreatBark"
      [] triggerTag = "on_player_pain"         -> "Pain"
      [] triggerTag = "on_player_surprised"    -> "Surprise"
      [] triggerTag = "on_player_breaks_taboo" -> "RitualHint"
      [] triggerTag = "on_night_heartbeat" /\ profile.superstition01 > 6  -> "Dread"
      [] triggerTag = "on_night_heartbeat" /\ profile.superstition01 <= 6 -> "Rumor"
      [] triggerTag = "on_enter_safehouse" /\ profile.bureaucratic01 > 5  -> "Bureaucratic"
      [] triggerTag = "on_enter_safehouse" /\ profile.bureaucratic01 <= 5 -> "NeutralAmbient"
      [] OTHER -> IF ctx.threatLevel01 > 6 THEN "Dread"
                  ELSE IF ctx.knownRumorIds # {} THEN "Rumor"
                  ELSE "NeutralAmbient"

\* C7: MapTriggerToFunction returns one of the nine categories, the one the decision
\* table gives for the tag, the context and the profile.
C7_RouterTable ==
    last.op = "MapTriggerToFunction" =>
        /\ last.fn \in DialogueFunction
        /\ last.fn = C7_Table(last.triggerTag, last.ctx, last.profile)

\* C7 witness: a heartbeat for a superstition slider of exactly 0.6 yields rumor.
C7_Witness ==
    /\ last.op = "MapTriggerToFunction"
    /\ last.triggerTag = "on_night_heartbeat"
    /\ last.profile.superstition01 = 6
    /\ last.fn = "Rumor"

\* C8: CanFire(profile, K) is true if and only if the profile's cooldown for K is
\* absent or <= 0, or the ledger has no entry for (npcId, K), or the current time
\* minus the entry is >= the cooldown.
C8_CanFireIff ==
    last.op = "CanFire" =>
        LET cd == last.profile.cooldownSeconds
        IN  last.ok <=>
                \/ last.fn \notin DOMAIN cd
                \/ cd[last.fn] <= 0
                \/ LastKey \notin DOMAIN lastFireTimestamps
                \/ currentTimeSeconds - lastFireTimestamps[LastKey] >= cd[last.fn]

\* C8 witness: the boundary, where the time elapsed equals a positive cooldown.
C8_Witness ==
    /\ last.op = "CanFire"
    /\ last.ok
    /\ last.fn \in DOMAIN last.profile.cooldownSeconds
    /\ last.profile.cooldownSeconds[last.fn] > 0
    /\ LastKey \in DOMAIN lastFireTimestamps
    /\ currentTimeSeconds - lastFireTimestamps[LastKey] = last.profile.cooldownSeconds[last.fn]

RECURSIVE C9_Cumulative(_, _)
\* The sum of the weights of the first n candidates of a list.
C9_Cumulative(candidates, n) ==
    IF n = 0 THEN 0
    ELSE templates[candidates[n]].weight + C9_Cumulative(candidates, n - 1)

\* C9: PickTemplateWeighted returns no selection only for an empty list; for a
\* non-empty list it returns a member: the first candidate when the weights sum to
\* <= 0, and otherwise the first candidate whose cumulative weight is >= the draw.
C9_WeightedSelector ==
    last.op = "PickTemplateWeighted" =>
        LET c == last.candidates
            total == C9_Cumulative(c, Len(c))
        IN  /\ (last.chosen = NullTemplate) <=> (c = <<>>)
            /\ c # <<>> =>
                /\ last.chosen \in Range(c)
                /\ total <= 0 => last.chosen = c[1]
                /\ total > 0 =>
                      \E i \in DOMAIN c :
                          /\ last.chosen = c[i]
                          /\ C9_Cumulative(c, i) >= last.roll
                          /\ \A j \in 1 .. i - 1 : C9_Cumulative(c, j) < last.roll

\* C9 witness: a positive total that hides a negative weight, and a draw that passes
\* the first candidate.
C9_Witness ==
    /\ last.op = "PickTemplateWeighted"
    /\ Len(last.candidates) >= 2
    /\ \E i \in DOMAIN last.candidates : templates[last.candidates[i]].weight < 0
    /\ C9_Cumulative(last.candidates, Len(last.candidates)) > 0
    /\ last.chosen # last.candidates[1]

RECURSIVE C11_ReplaceAll(_, _, _, _)
\* text with the token at each position of occ replaced by value, the rightmost
\* position first, so that every position is one of the text as given.
C11_ReplaceAll(text, token, value, occ) ==
    IF occ = {} THEN text
    ELSE LET p == CHOOSE q \in occ : \A r \in occ : r <= q
         IN  C11_ReplaceAll(Sub(text, 1, p - 1) \o value
                                \o Sub(text, p + Len(token), Len(text)),
                            token, value, occ \ {p})

\* The positions of the text where the token occurs.
C11_Occurrences(text, token) ==
    {p \in 1 .. Len(text) - Len(token) + 1 : Sub(text, p, p + Len(token) - 1) = token}

\* The ReplaceToken call under way has returned.
C11_Returned == last.op = "ReplaceToken" /\ last.arg.returned

\* C11: substitution termination.  For every text, non-empty token and value, a
\* value containing the token included, ReplaceToken returns; it has then made one
\* replacement for each occurrence of the token in the text it was given, and the
\* result is that text with exactly those occurrences replaced by the value: token
\* text inside an inserted value is not expanded again.
C11_ReplaceTerminates ==
    /\ (last.op = "ReplaceToken") ~> C11_Returned
    /\ [](C11_Returned /\ last.arg.token # "" =>
            LET occ == C11_Occurrences(last.arg.text, last.arg.token)
            IN  /\ last.arg.replaced = Cardinality(occ)
                /\ last.line = C11_ReplaceAll(last.arg.text, last.arg.token,
                                              last.arg.value, occ)
                /\ last.line = ReplaceToken(last.arg.text, last.arg.token,
                                            last.arg.value))
    /\ [](last.op = "ReplaceToken" /\ last.arg.token # "" =>
            last.arg.replaced <= Cardinality(C11_Occurrences(last.arg.text,
                                                             last.arg.token)))

\* C11 witness: the text "{X}" with the value "a{X}b" has returned as "a{X}b".
C11_Witness ==
    /\ C11_Returned
    /\ last.arg.text = "{X}"
    /\ last.arg.token = "{X}"
    /\ last.arg.value = "a{X}b"
    /\ last.line = "a{X}b"

\* The five tokens the substitution phase recognizes.
C12_Tokens == {"{PLAYER_CALLSIGN}", "{LOCAL_SPIRIT}", "{TABOO}", "{PLACE}", "{BODYSYMPTOM}"}

\* The text has one of the recognized tokens somewhere in it.
C12_HasToken(text) ==
    \E token \in C12_Tokens :
        \E p \in 1 .. Len(text) : p + Len(token) - 1 <= Len(text)
                                    /\ SubSeq(text, p, p + Len(token) - 1) = token

\* C12: identity on absence.  A template text with none of the five recognized
\* tokens comes out of the substitution phase unchanged, for every context and
\* profile.
C12_SubstitutionIdentity ==
    (last.op = "SubstituteTokens" /\ ~C12_HasToken(last.arg.text))
        => last.line = last.arg.text

\* C12 witness: a text with a brace token that is not one of the five is unchanged.
C12_Witness ==
    /\ last.op = "SubstituteTokens"
    /\ last.arg.text = "Cold {WEATHER} tonight."
    /\ last.line = last.arg.text
    /\ last.ctx.activeTabooIds # {}

\* The NPC and the context of the scenario, as a call records them.
C13_Setting(call) ==
    /\ call.op = "GenerateLine"
    /\ call.profile.role = "Villager"
    /\ call.profile.superstition01 = 9
    /\ call.ctx.regionTone = "ForestVillage"
    /\ call.ctx.isNight
    /\ call.ctx.threatLevel01 = 5
    /\ call.ctx.activeTabooIds = {"TABS_WHISTLE_AT_NIGHT"}

\* C13: end-to-end scenario.  On an engine with the built-in pool and an empty
\* ledger, for a registered villager of superstition 0.9 and a context of baseline
\* tone at night with threat 0.5 and the whistling taboo active, GenerateLine on
\* on_night_heartbeat returns a non-empty line of a dread template; and the
\* GenerateLine on on_player_breaks_taboo that follows it at once, at the same time,
\* returns a non-empty line of the ritual-hint category.
C13_Scenario ==
    /\ [][(/\ GenerateLineStep
           /\ templates = InitializeDefaultTemplates
           /\ lastFireTimestamps = <<>>
           /\ last'.npcId \in DOMAIN npcProfiles
           /\ C13_Setting(last')
           /\ last'.triggerTag = "on_night_heartbeat")
          => /\ last'.outcome = "emitted"
             /\ last'.line # ""
             /\ last'.fn = "Dread"
             /\ templates[last'.chosen].function = "Dread"]_vars
    /\ [][(/\ C13_Setting(last)
           /\ last.triggerTag = "on_night_heartbeat"
           /\ last.outcome = "emitted"
           /\ templates = InitializeDefaultTemplates
           /\ DOMAIN lastFireTimestamps = {CooldownKey(last.npcId, "Dread")}
           /\ GenerateLineStep
           /\ last'.npcId = last.npcId
           /\ last'.ctx = last.ctx
           /\ last'.triggerTag = "on_player_breaks_taboo")
          => /\ last'.outcome = "emitted"
             /\ last'.line # ""
             /\ last'.fn = "RitualHint"
             /\ templates[last'.chosen].function = "RitualHint"
             /\ currentTimeSeconds' = currentTimeSeconds]_vars

\* C13 witness: the second call of the scenario has returned its line at time 0, the
\* dread line of the first call having been emitted at that same time.
C13_Witness ==
    /\ C13_Setting(last)
    /\ last.triggerTag = "on_player_breaks_taboo"
    /\ last.outcome = "emitted"
    /\ last.line # ""
    /\ templates = InitializeDefaultTemplates
    /\ currentTimeSeconds = 0
    /\ DOMAIN lastFireTimestamps = {<<last.npcId, "Dread">>, <<last.npcId, "RitualHint">>}
    /\ lastFireTimestamps[<<last.npcId, "Dread">>] = 0
    /\ lastFireTimestamps[<<last.npcId, "RitualHint">>] = 0

\* A step of the engine that is an add-template call.
C14_AddTemplateStep == nOps' = nOps + 1 /\ last'.op = "AddTemplate"

\* C14: add-template appends.  After add-template(T) the pool is one longer, T is
\* its last template and every earlier template is where it was; and the
\* GenerateLine call that comes next has T among its candidates exactly when T
\* passes the filter for that call.
C14_AddTemplateAppends ==
    /\ [][C14_AddTemplateStep =>
            /\ Len(templates') = Len(templates) + 1
            /\ templates'[Len(templates')] = last'.arg
            /\ \A i \in DOMAIN templates : templates'[i] = templates[i]]_vars
    /\ [][(/\ last.op = "AddTemplate"
           /\ GenerateLineStep
           /\ last'.outcome \in {"no_candidates", "null_pick", "emitted"})
          => ((Len(templates) \in Range(last'.candidates))
                <=> C5_Matches(last.arg, last'.ctx, last'.profile, last'.fn))]_vars

\* C14 witness: the call after an add-template has the built-in dread template and
\* the added one as its candidates, in that order.
C14_Witness ==
    /\ last.op = "GenerateLine"
    /\ Len(templates) = Len(InitializeDefaultTemplates) + 1
    /\ templates[Len(templates)] = XDread
    /\ last.candidates = <<1, Len(templates)>>
    /\ last.outcome = "emitted"

\* C15: the candidate list is a subsequence of the pool in pool order.  Every
\* candidate is a template of the pool, none appears twice, and of two candidates
\* the one earlier in the list is the one earlier in the pool.
C15_CandidatesInPoolOrder ==
    last.op = "CollectCandidates" =>
        /\ \A k \in DOMAIN last.candidates : last.candidates[k] \in DOMAIN templates
        /\ \A j, k \in DOMAIN last.candidates :
               j < k => last.candidates[j] < last.candidates[k]

\* C15 witness: both templates of a pool of two are candidates.
C15_Witness ==
    /\ last.op = "CollectCandidates"
    /\ Len(templates) = 2
    /\ templates[1] # templates[2]
    /\ last.candidates = <<1, 2>>

\* C16: ledger entries are never removed.  Over every step of the engine an entry of
\* the ledger stays an entry; an entry is created or given a new value only by a
\* GenerateLine call that emits for that (NPC, category) pair; and every such call
\* leaves the pair's entry equal to the current time, so the value is always the time
\* of the pair's most recent emission.
C16_LedgerNeverShrinks ==
    [][/\ DOMAIN lastFireTimestamps \subseteq DOMAIN lastFireTimestamps'
       /\ \A k \in DOMAIN lastFireTimestamps' :
              (k \notin DOMAIN lastFireTimestamps
                 \/ lastFireTimestamps'[k] # lastFireTimestamps[k])
              => /\ GenerateLineStep
                 /\ last'.outcome = "emitted"
                 /\ k = <<last'.npcId, last'.fn>>
       /\ (GenerateLineStep /\ last'.outcome = "emitted")
              => /\ <<last'.npcId, last'.fn>> \in DOMAIN lastFireTimestamps'
                 /\ lastFireTimestamps'[<<last'.npcId, last'.fn>>] = currentTimeSeconds
                 /\ currentTimeSeconds' = currentTimeSeconds]_vars

\* C16 witness: an NPC that has an entry in the ledger has been registered again, at
\* a later time, and the entry is still there with the time of the emission.
C16_Witness ==
    /\ last.op = "RegisterNPCProfile"
    /\ \E fn \in DialogueFunction :
           /\ <<last.npcId, fn>> \in DOMAIN lastFireTimestamps
           /\ lastFireTimestamps[<<last.npcId, fn>>] < currentTimeSeconds

\* A step of the engine that is a RegisterNPCProfile call.
C17_RegisterStep == nOps' = nOps + 1 /\ last'.op = "RegisterNPCProfile"

\* C17: profile registry.  GetNPCProfile returns no profile for every identifier of
\* a new engine; a RegisterNPCProfile call makes it return the profile just given for
\* that profile's identifier and leaves what it returns for every other identifier;
\* and no other operation changes what it returns.  So it returns nothing for an
\* identifier never registered and the latest registration otherwise.
C17_RegistryLastWriteWins ==
    /\ \A id \in NpcIds : GetNPCProfile(id) = <<>>
    /\ [][\A id \in NpcIds :
            GetNPCProfile(id)' =
                IF C17_RegisterStep /\ id = last'.profile.npcId
                THEN <<last'.profile>>
                ELSE GetNPCProfile(id)]_vars

\* C17 witness: an NPC that spoke as a clerk is registered again as a villager, and
\* the registry holds the villager; the other identifier was never registered.
C17_Witness ==
    /\ last.op = "RegisterNPCProfile"
    /\ <<last.npcId, "Bureaucratic">> \in DOMAIN lastFireTimestamps
    /\ last.profile.role = "Villager"
    /\ GetNPCProfile(last.npcId) = <<last.profile>>
    /\ \E id \in NpcIds : GetNPCProfile(id) = <<>>

\* A step of the engine that is a NotifyEvent call.
C18_NotifyStep == nOps' = nOps + 1 /\ last'.op = "NotifyEvent"

\* C18: NotifyEvent appends one record and changes nothing else.  The log is one
\* longer, its records so far are as they were, the new last record has the call's
\* event, region and severity and the current time; the registry, the pool, the
\* ledger and the time are unchanged; and a step of any other operation leaves the log
\* as it was.
C18_NotifyEventAppends ==
    [][/\ C18_NotifyStep =>
            /\ Len(emergentEvents') = Len(emergentEvents) + 1
            /\ \A i \in DOMAIN emergentEvents : emergentEvents'[i] = emergentEvents[i]
            /\ LET e == emergentEvents'[Len(emergentEvents')]
               IN  /\ e.eventId = last'.arg.eventId
                   /\ e.regionId = last'.arg.regionId
                   /\ e.severity01 = last'.arg.severity01
                   /\ e.timestampSeconds = currentTimeSeconds
            /\ UNCHANGED <<npcProfiles, templates, lastFireTimestamps, currentTimeSeconds>>
       /\ ~C18_NotifyStep => emergentEvents' = emergentEvents]_vars

\* C18 witness: a second record has been appended at a later time than the first.
C18_Witness ==
    /\ last.op = "NotifyEvent"
    /\ Len(emergentEvents) = 2
    /\ emergentEvents[1].timestampSeconds < emergentEvents[2].timestampSeconds
    /\ emergentEvents[2].timestampSeconds = currentTimeSeconds

\* The text has one of the two forbidden markers somewhere in it.
C19_HasMarker(text) ==
    \E p \in 1 .. Len(text) :
        \/ p + 2 <= Len(text) /\ SubSeq(text, p, p + 2) = "^TM"
        \/ p + 1 <= Len(text) /\ SubSeq(text, p, p + 1) = "^R"

\* An object node the loader is to accept.
C19_Acceptable(node) ==
    node.isObject /\ node.id # "" /\ node.text # "" /\ ~C19_HasMarker(node.text)

\* An object node the loader is to skip with a warning.
C19_Rejected(node) == node.isObject /\ ~C19_Acceptable(node)

\* C19: loader validation.  Every template the loader hands to the engine has a
\* non-empty identifier, a non-empty text and no forbidden marker in its text; the
\* templates handed over are, in file order, those of the units that have all three,
\* whatever units come before or after them; and each unit with an empty identifier
\* or text or with a marker is skipped with one warning.
C19_LoaderValidates ==
    last.op = "LoadDialogueUnitsFromFile" =>
        LET handed == last.arg.handed
            nodes == last.arg.file.nodes
            accepted == SelectSeq(nodes, C19_Acceptable)
            skips == SelectSeq(last.arg.warnings,
                               LAMBDA w : w.kind \in {"missing_id_text", "forbidden_markers"})
        IN  /\ \A k \in DOMAIN handed :
                   /\ handed[k].id # ""
                   /\ handed[k].text # ""
                   /\ ~C19_HasMarker(handed[k].text)
            /\ last.ok =>
                   /\ Len(handed) = Len(accepted)
                   /\ \A k \in DOMAIN handed :
                          handed[k].id = accepted[k].id /\ handed[k].text = accepted[k].text
                   /\ Len(skips) = Len(SelectSeq(nodes, C19_Rejected))
            /\ ~last.ok => handed = <<>>

\* C19 witness: a file whose first unit carries a marker and whose second is sound;
\* the first is skipped with a warning and the second handed to the engine.
C19_Witness ==
    /\ last.op = "LoadDialogueUnitsFromFile"
    /\ last.ok
    /\ Len(last.arg.file.nodes) = 2
    /\ C19_HasMarker(last.arg.file.nodes[1].text)
    /\ last.arg.file.nodes[1].id # ""
    /\ Len(last.arg.handed) = 1
    /\ last.arg.handed[1].id = last.arg.file.nodes[2].id
    /\ last.arg.warnings[1].kind = "forbidden_markers"

\* The cooldown stage as the claim has it: nothing to wait for, or waited enough.
C21_MayFire(profile, fn) ==
    \/ fn \notin DOMAIN profile.cooldownSeconds
    \/ profile.cooldownSeconds[fn] <= 0
    \/ <<profile.npcId, fn>> \notin DOMAIN lastFireTimestamps
    \/ currentTimeSeconds - lastFireTimestamps[<<profile.npcId, fn>>]
           >= profile.cooldownSeconds[fn]

\* Some template of the pool passes the filter.
C21_HasCandidate(ctx, profile, fn) ==
    \E i \in DOMAIN templates : C5_Matches(templates[i], ctx, profile, fn)

\* C21: stage order.  A GenerateLine call records an emission (it touches the ledger
\* and returns a realized template) if and only if the NPC is registered, the
\* cooldown of the routed category lets it fire, and some template passes the
\* filter.  The call returns at the first stage that fails: at the registry for an
\* unknown NPC, else at the cooldown check, else at the empty candidate list.
C21_StageOrder ==
    [][GenerateLineStep =>
        LET id == last'.npcId
            registered == id \in DOMAIN npcProfiles
            profile == npcProfiles[id]
            routed == C7_Table(last'.triggerTag, last'.ctx, profile)
            key == <<id, routed>>
        IN  /\ ~registered =>
                last'.outcome = "unknown_npc" /\ UNCHANGED lastFireTimestamps
            /\ (registered /\ ~C21_MayFire(profile, routed)) =>
                last'.outcome = "on_cooldown" /\ UNCHANGED lastFireTimestamps
            /\ (registered /\ C21_MayFire(profile, routed)
                  /\ ~C21_HasCandidate(last'.ctx, profile, routed)) =>
                last'.outcome = "no_candidates" /\ UNCHANGED lastFireTimestamps
            /\ (registered /\ C21_MayFire(profile, routed)
                  /\ C21_HasCandidate(last'.ctx, profile, routed)) =>
                /\ last'.outcome = "emitted"
                /\ last'.chosen \in DOMAIN templates
                /\ key \in DOMAIN lastFireTimestamps'
                /\ lastFireTimestamps'[key] = currentTimeSeconds]_vars

\* C21 witness: a call refused at the cooldown check although a template would have
\* passed the filter.
C21_Witness ==
    /\ last.op = "GenerateLine"
    /\ last.outcome = "on_cooldown"
    /\ last.candidates = <<>>
    /\ C21_HasCandidate(last.ctx, last.profile, last.fn)

\* The positions (counted from 0) up to 60 where the line has a space.
C22_Spaces(line) ==
    {k \in 0 .. 60 : k + 1 <= Len(line) /\ SubSeq(line, k + 1, k + 1) = " "}

C23_Closers ==
    {" You get used to it.", " It was worse before.", " It never really stops.",
     " That's just how it is here."}

\* The text has the part somewhere in it.
C23_Contains(text, part) ==
    \E p \in 1 .. Len(text) :
        p + Len(part) - 1 <= Len(text) /\ SubSeq(text, p, p + Len(part) - 1) = part

\* C23: the style pass is the identity when no step's precondition holds.  If
\* (verbosity >= 0.3 or the line has at most 60 characters) and (fatalism <= 0.6 or
\* the category is neither dread nor rumor) and (the bureaucratic slider <= 0.5 or
\* the category is not bureaucratic) and superstition <= 0.7, the line is returned as
\* given, whatever the draws; and a line of a category other than dread or rumor
\* gets no resigned closer.
C23_StyleIdentity ==
    last.op = "ApplyStyleNoise" =>
        /\ (/\ last.profile.verbosity01 >= 3 \/ Len(last.arg.line) <= 60
            /\ last.profile.fatalism01 <= 6 \/ last.fn \notin {"Dread", "Rumor"}
            /\ last.profile.bureaucratic01 <= 5 \/ last.fn # "Bureaucratic"
            /\ last.profile.superstition01 <= 7)
           => last.line = last.arg.line /\ ~last.undefinedRead
        /\ last.fn \notin {"Dread", "Rumor"} =>
               \A closer \in C23_Closers : ~C23_Contains(last.line, closer)

\* C23 witness: a fatalist's line of the pain category comes back unchanged although
\* the draw for the resigned tail succeeded.
C23_Witness ==
    /\ last.op = "ApplyStyleNoise"
    /\ last.fn = "Pain"
    /\ last.profile.fatalism01 > 6
    /\ last.profile.bureaucratic01 > 5
    /\ last.profile.verbosity01 < 3
    /\ last.profile.superstition01 <= 7
    /\ last.arg.draw.tail
    /\ last.arg.line # ""
    /\ last.line = last.arg.line

\* C24: a GenerateLine call that records an emission in the ledger returns a
\* non-empty string; an empty return value means the ledger was not touched.
C24_EmissionNonEmpty ==
    (last.op = "GenerateLine" /\ last.outcome = "emitted") => last.line # ""

\* C25: when the superstitious-fragment step fires, the line it inspects is not
\* empty, so the read of the line's last character is defined.
C25_FragmentReadDefined ==
    last.op = "GenerateLine" => ~last.undefinedRead

\* Whether the ledger lets the profile fire the category at time t.
C26_FiresAt(ledger, profile, fn, t) ==
    \/ fn \notin DOMAIN profile.cooldownSeconds
    \/ profile.cooldownSeconds[fn] <= 0
    \/ <<profile.npcId, fn>> \notin DOMAIN ledger
    \/ t - ledger[<<profile.npcId, fn>>] >= profile.cooldownSeconds[fn]

\* C26: cooldowns are independent per (NPC, category).  An emission for (n, K)
\* leaves, for every registered NPC and category other than that pair, the answer of
\* CanFire as it was, at the current time and at every other time.
C26_CooldownsIndependent ==
    [][(GenerateLineStep /\ last'.outcome = "emitted") =>
        \A id \in DOMAIN npcProfiles : \A fn \in DialogueFunction :
            <<id, fn>> # <<last'.npcId, last'.fn>> =>
                /\ CanFire(npcProfiles[id], fn)' = CanFire(npcProfiles[id], fn)
                /\ \A t \in 0 .. MaxTime + 1 :
                       C26_FiresAt(lastFireTimestamps', npcProfiles[id], fn, t)
                           = C26_FiresAt(lastFireTimestamps, npcProfiles[id], fn, t)]_vars

\* C26 witness: an NPC has just emitted for one category while it is still refused
\* for another, and a second NPC with a cooldown for the category just emitted may
\* still fire it.
C26_Witness ==
    /\ last.op = "GenerateLine"
    /\ last.outcome = "emitted"
    /\ \E fn \in DialogueFunction \ {last.fn} :
           /\ <<last.npcId, fn>> \in DOMAIN lastFireTimestamps
           /\ ~CanFire(npcProfiles[last.npcId], fn)
    /\ \E id \in DOMAIN npcProfiles \ {last.npcId} :
           /\ last.fn \in DOMAIN npcProfiles[id].cooldownSeconds
           /\ npcProfiles[id].cooldownSeconds[last.fn] > 0
           /\ CanFire(npcProfiles[id], last.fn)

\* C27: re-registration does not reset cooldowns.  A RegisterNPCProfile call leaves
\* every ledger entry where it was; and the GenerateLine call that follows a
\* registration of its NPC is refused at the cooldown check exactly when the profile
\* just registered has a positive cooldown for the routed category and less than
\* that has passed since the entry the ledger holds for the pair.
C27_ReRegistrationKeepsCooldowns ==
    /\ [][C17_RegisterStep => UNCHANGED lastFireTimestamps]_vars
    /\ [][(/\ last.op = "RegisterNPCProfile"
           /\ GenerateLineStep
           /\ last'.npcId = last.npcId)
          => LET key == <<last.npcId, last'.fn>>
                 cooldown == IF last'.fn \in DOMAIN last.profile.cooldownSeconds
                             THEN last.profile.cooldownSeconds[last'.fn] ELSE 0
             IN  (last'.outcome = "on_cooldown")
                    <=> /\ cooldown > 0
                        /\ key \in DOMAIN lastFireTimestamps
                        /\ currentTimeSeconds - lastFireTimestamps[key] < cooldown]_vars

\* C27 witness: an NPC that emitted, and was registered again after that, is refused
\* inside the cooldown window of the emission.
C27_Witness ==
    /\ last.op = "GenerateLine"
    /\ last.outcome = "on_cooldown"
    /\ <<last.npcId, last.fn>> \in DOMAIN lastFireTimestamps
    /\ emitted[<<last.npcId, last.fn>>] = {}
    /\ last.profile.cooldownSeconds[last.fn]
           > currentTimeSeconds - lastFireTimestamps[<<last.npcId, last.fn>>]

\* A step of the engine that is a SetCurrentTimeSeconds call.
C28_SetTimeStep == nOps' = nOps + 1 /\ last'.op = "SetCurrentTimeSeconds"

\* C28: time may go backwards.  SetCurrentTimeSeconds makes the value it is given
\* the current time, earlier than the present time or not, and leaves the ledger;
\* a GenerateLine whose pair has an entry and a positive cooldown is refused while
\* the current time is below the entry's time plus the cooldown, also when it is
\* below the entry's time; and a step that does not move the time back keeps every
\* ledger timestamp <= the current time if they all were, as they are on a new
\* engine.
C28_TimeBackwards ==
    /\ \A k \in DOMAIN lastFireTimestamps : lastFireTimestamps[k] <= currentTimeSeconds
    /\ [][C28_SetTimeStep =>
            currentTimeSeconds' = last'.arg /\ UNCHANGED lastFireTimestamps]_vars
    /\ [][(/\ GenerateLineStep
           /\ last'.npcId \in DOMAIN npcProfiles
           /\ LET profile == npcProfiles[last'.npcId]
                  routed == C7_Table(last'.triggerTag, last'.ctx, profile)
                  key == <<last'.npcId, routed>>
              IN  /\ routed \in DOMAIN profile.cooldownSeconds
                  /\ profile.cooldownSeconds[routed] > 0
                  /\ key \in DOMAIN lastFireTimestamps
                  /\ currentTimeSeconds
                         < lastFireTimestamps[key] + profile.cooldownSeconds[routed])
          => last'.outcome = "on_cooldown" /\ last'.line = ""]_vars
    /\ [][(/\ \A k \in DOMAIN lastFireTimestamps :
                  lastFireTimestamps[k] <= currentTimeSeconds
           /\ currentTimeSeconds' >= currentTimeSeconds)
          => \A k \in DOMAIN lastFireTimestamps' :
                 lastFireTimestamps'[k] <= currentTimeSeconds']_vars

\* C28 witness: the time has been set below the time of an emission, and the call
\* for that pair is refused.
C28_Witness ==
    /\ last.op = "GenerateLine"
    /\ last.outcome = "on_cooldown"
    /\ LastKey \in DOMAIN lastFireTimestamps
    /\ currentTimeSeconds < lastFireTimestamps[LastKey]

\* The most recent calls of threads a and b both emitted a line for one NPC and
\* one category with a positive cooldown, less than the cooldown apart.
C29_BothEmitInWindow(a, b) ==
    LET ca == last.arg[a].call
        cb == last.arg[b].call
        apart == last.arg[a].firedAt - last.arg[b].firedAt
    IN  /\ a # b
        /\ last.arg[a].pc = "idle" /\ last.arg[b].pc = "idle"
        /\ ca.outcome = "emitted" /\ cb.outcome = "emitted"
        /\ ca.npcId = cb.npcId /\ ca.fn = cb.fn
        /\ ca.fn \in DOMAIN ca.profile.cooldownSeconds
        /\ ca.profile.cooldownSeconds[ca.fn] > 0
        /\ apart < ca.profile.cooldownSeconds[ca.fn]
        /\ -apart < ca.profile.cooldownSeconds[ca.fn]

\* Both calls had passed CanFire before either reached TouchCooldown.
C29_Interleaved(a, b) ==
    /\ last.arg[a].checkedAt < last.arg[b].returnedAt
    /\ last.arg[b].checkedAt < last.arg[a].returnedAt

\* C29: GenerateLine's cooldown check and its timestamp update are separate
\* steps under no lock.  Two calls for one NPC and category on two threads both
\* emit within one cooldown window only when both passed CanFire before either
\* called TouchCooldown, an interleaving that is reachable (the witness); two
\* calls of which one returned before the other began never both emit within
\* the window.
C29_DoubleEmissionOnlyInterleaved ==
    \A a \in Threads, b \in Threads :
        C29_BothEmitInWindow(a, b) => C29_Interleaved(a, b)

\* C29 witness: both threads passed the check before either touched the ledger,
\* and both emitted for the same NPC and category within one cooldown window.
C29_Witness ==
    \E a \in Threads, b \in Threads :
        /\ C29_BothEmitInWindow(a, b)
        /\ last.arg[a].checkedAt < last.arg[b].checkedAt
        /\ last.arg[b].checkedAt < last.arg[a].returnedAt
        /\ last.arg[a].returnedAt < last.arg[b].returnedAt

====
